---------------------------- MODULE Spec2Model ----------------------------
(***************************************************************************)
(* A model of the star-system editor (StarSystemEditor), its seeded scene  *)
(* generator, the belt stage of its two renderers (StarCanvas, StarSvg),   *)
(* its JSON export/import and its PNG export flows.                        *)
(*                                                                         *)
(* Number conventions.                                                     *)
(*  - A 32-bit word is a pair <<hi, lo>> of 16-bit halves.  Every bitwise  *)
(*    operator of lib/rng is computed on the two halves, modulo 2^32.      *)
(*  - A value rand() = u / 2^32 is kept as the word u.                     *)
(*  - Lengths (px) and the other real quantities are fixed-point integers  *)
(*    in units of 1/Unit; a product rand() * k is floor(u * k * Unit /     *)
(*    2^32), i.e. the double is truncated to the unit.                     *)
(*  - Angles are kept as the 16 high bits of the draw: 1/65536 of a turn.  *)
(*  - An optional value (undefined in the source) is <<>>, a present one   *)
(*    is <<v>>.                                                            *)
(***************************************************************************)
EXTENDS Integers, Sequences, FiniteSets, Bags, TLC

H == 2^16

\* fixed-point resolution of lengths: 1 px = Unit
Unit == 2^16

\* resolution of ratios (opacity, flatten, density): 1.0 = Milli
Milli == 10^3

None == <<>>

Some(v) == <<v>>

IsSome(o) == o # <<>>

Val(o) == o[1]

\* a ?? b
Coalesce(o, d) == IF IsSome(o) THEN o ELSE d

Max(a, b) == IF a >= b THEN a ELSE b

Min(a, b) == IF a <= b THEN a ELSE b

(***************************************************************************)
(* 32-bit words                                                            *)
(***************************************************************************)
RECURSIVE Xor16(_, _)
Xor16(a, b) ==
    IF a = 0 THEN b
    ELSE IF b = 0 THEN a
    ELSE ((a + b) % 2) + 2 * Xor16(a \div 2, b \div 2)

RECURSIVE Or16(_, _)
Or16(a, b) ==
    IF a = 0 THEN b
    ELSE IF b = 0 THEN a
    ELSE (IF a % 2 = 1 \/ b % 2 = 1 THEN 1 ELSE 0) + 2 * Or16(a \div 2, b \div 2)

\* ToUint32 of an integer-valued number (x >>> 0, x | 0 as a bit pattern)
ToWord(x) == << (x \div H) % H, x % H >>

WXor(a, b) == << Xor16(a[1], b[1]), Xor16(a[2], b[2]) >>

WOr(a, b) == << Or16(a[1], b[1]), Or16(a[2], b[2]) >>

WAdd(a, b) ==
    LET lo == a[2] + b[2]
    IN  << (a[1] + b[1] + lo \div H) % H, lo % H >>

Pow2(k) == IF k = 0 THEN 1 ELSE IF k = 2 THEN 4 ELSE IF k = 6 THEN 64
           ELSE IF k = 7 THEN 128 ELSE IF k = 14 THEN 16384
           ELSE IF k = 15 THEN 32768 ELSE H

\* a >>> k, 0 < k <= 16
WShr(a, k) ==
    IF k = 16 THEN << 0, a[1] >>
    ELSE << a[1] \div Pow2(k),
            (a[2] \div Pow2(k)) + (a[1] % Pow2(k)) * (H \div Pow2(k)) >>

\* a << 6
WShl6(a) == << (a[1] * 64 + a[2] \div 1024) % H, (a[2] * 64) % H >>

\* the low 16 bits of x * y, x and y 16-bit
Mul16Lo(x, y) == ((x % 256) * y + ((x \div 256) * (y % 256)) * 256) % H

\* the 32-bit product x * y of two 16-bit halves
Mul16(x, y) ==
    LET p0 == (x % 256) * y
        p1 == (x \div 256) * y
        lo == p0 + (p1 % 256) * 256
    IN  << lo \div H + p1 \div 256, lo % H >>

\* Math.imul(a, b): the low 32 bits of the product
Imul(a, b) ==
    LET ll == Mul16(a[2], b[2])
    IN  << (ll[1] + Mul16Lo(a[1], b[2]) + Mul16Lo(a[2], b[1])) % H, ll[2] >>

(***************************************************************************)
(* lib/rng                                                                 *)
(***************************************************************************)
GoldenGamma == << 27947, 31221 >>   \* 0x6d2b79f5

MixInit == << 40503, 31161 >>       \* 0x9e3779b9

MixMul == << 1117, 40763 >>         \* 0x045d9f3b

MixAdd == << 32747, 13613 >>        \* 0x7feb352d

\* the state t of a mulberry32 stream after its k-th call: k additions of
\* 0x6d2b79f5 to the seed word
StreamState(w, k) == WAdd(w, Imul(ToWord(k), GoldenGamma))

\* r = Math.imul(t ^ (t >>> 15), 1 | t)
Mulberry32First(t) == Imul(WXor(t, WShr(t, 15)), WOr(t, << 0, 1 >>))

\* r ^= r + Math.imul(r ^ (r >>> 7), 61 | r)
Mulberry32Second(r) ==
    WXor(r, WAdd(r, Imul(WXor(r, WShr(r, 7)), WOr(r, << 0, 61 >>))))

\* (r ^ (r >>> 14)) >>> 0
Mulberry32Last(r) == WXor(r, WShr(r, 14))

\* one output of mulberry32 from the advanced state t: the word u of u / 2^32
Mulberry32Out(t) == Mulberry32Last(Mulberry32Second(Mulberry32First(t)))

\* the k-th value (k >= 1) returned by the generator mulberry32(seed word w)
Draw(w, k) == Mulberry32Out(StreamState(w, k))

\* x ^= x >>> 16
MixFold(x) == WXor(x, WShr(x, 16))

\* x = Math.imul(x, 0x45d9f3b); x ^= x >>> 16
MixRound(x) == MixFold(Imul(x, MixMul))

\* h ^= x + 0x7feb352d + (h << 6) + (h >>> 2)
MixInto(h, x) == WXor(h, WAdd(WAdd(WAdd(x, MixAdd), WShl6(h)), WShr(h, 2)))

\* one step of the mix: the part p folded into the hash h
MixStep(h, p) == MixInto(h, MixRound(MixRound(WXor(p, WShr(h, 16)))))

\* mixSeed(a, b, c)
MixSeed(a, b, c) == MixStep(MixStep(MixStep(MixInit, ToWord(a)), ToWord(b)), ToWord(c))


\* floor(rand() * k) for rand() = u / 2^32 and an integer 0 <= k < 2^31
MulRand(u, k) ==
    LET kh == k \div H
        kl == k % H
        a  == Mul16(u[1], kl)
        b  == Mul16(u[2], kh)
        c  == Mul16(u[2], kl)
    IN  u[1] * kh + a[1] + b[1] + (a[2] + b[2] + c[1]) \div H

\* rand() < 0.25 and rand() < 0.5
LessQuarter(u) == u[1] < H \div 4

LessHalf(u) == u[1] < H \div 2

\* rand() * Math.PI * 2, in 1/65536 of a turn
TurnOf(u) == u[1]

(***************************************************************************)
(* StarSystemEditor: the scene builder                                     *)
(***************************************************************************)
minOrbit == 40

orbitGapMin == 35

orbitGapMax == 70

MoonSalt == 14593470      \* 0xdeadbe

RingSalt == 1267611       \* 0x13579b

NameSalt == 5350821       \* 0x51a5a5

palette == << "#8AB4F8", "#F28B82", "#FDD663", "#81C995",
              "#CF9FFF", "#F6AEA9", "#B4C7E7", "#D7CCC8" >>

ringPalette == << "#c9b18b", "#a0a0a0", "#b68d5a" >>

\* the first n values of the stream mulberry32(w), value k at k
Draws(w, n) == [ k \in 1 .. n |-> Draw(w, k) ]

\* the moons count of planet i, from its own stream
MoonsGen(seedv, i) == MulRand(Draw(MixSeed(seedv, MoonSalt, i), 1), 4)

\* the rings read from the values d of the rings stream, in the source's
\* draw order
RingsFrom(d) ==
    IF LessQuarter(d[1])
    THEN Some([ enabled  |-> TRUE,
                gap      |-> (1 + MulRand(d[2], 4)) * Unit,
                width    |-> (6 + MulRand(d[3], 16)) * Unit,
                color    |-> ringPalette[MulRand(d[4], 3) + 1],
                opacity  |-> 400 + MulRand(d[5], 300),
                flatten  |-> 500 + MulRand(d[6], 400),
                angleDeg |-> 30 + MulRand(d[7], 60) ])
    ELSE None

\* the rings of planet i, from its own stream
RingsGen(seedv, i) == RingsFrom(Draws(MixSeed(seedv, RingSalt, i), 7))

\* a gap drawn without its minimum: rand() * (orbitGapMax - orbitGapMin)
OrbitGapWithoutMin(u) == MulRand(u, (orbitGapMax - orbitGapMin) * Unit)

\* orbitGapMin + rand() * (orbitGapMax - orbitGapMin)
OrbitGap(u) == orbitGapMin * Unit + MulRand(u, (orbitGapMax - orbitGapMin) * Unit)

\* the planet pushed by iteration i of the loop of basePlanets: orbit is
\* currentOrbit after its gap, d the four values the iteration draws
BasePlanet(seedv, i, orbit, d) ==
    [ orbitRadius |-> orbit,
      size        |-> (4 + MulRand(d[2], 10)) * Unit,
      angle       |-> TurnOf(d[3]),
      color       |-> palette[MulRand(d[4], Len(palette)) + 1],
      name        |-> "",
      moons       |-> MoonsGen(seedv, i),
      rings       |-> RingsGen(seedv, i) ]

\* the loop of basePlanets from index i on; t is the state of the orbit
\* stream and currentOrbit the radius accumulated so far
RECURSIVE BasePlanetsFrom(_, _, _, _, _)
BasePlanetsFrom(seedv, n, i, t, currentOrbit) ==
    IF i >= n THEN << >>
    ELSE << BasePlanet(seedv, i, currentOrbit + OrbitGap(Draw(t, 1)), Draws(t, 4)) >>
         \o BasePlanetsFrom(seedv, n, i + 1, StreamState(t, 4),
                            currentOrbit + OrbitGap(Draw(t, 1)))

\* a builder whose orbit stream is seeded with the seed and the count
BuildBasePlanetsSeededByCount(seedv, n) ==
    BasePlanetsFrom(seedv, n, 0, ToWord(seedv + n), minOrbit * Unit)

\* basePlanets: const rand = mulberry32(seed), currentOrbit = minOrbit and
\* the loop over i < numPlanets
BuildBasePlanets(seedv, n) == BasePlanetsFrom(seedv, n, 0, ToWord(seedv), minOrbit * Unit)

prefixes == << "Zeta", "Epsilon", "Delta", "Theta", "Omega", "Sigma", "Alpha",
               "Beta", "Gamma", "Kappa", "Rho", "Tau", "Xi" >>

suffixes == << "I", "II", "III", "IV", "V", "VI", "VII", "VIII", "IX", "X" >>

syll == << "ka", "tor", "vel", "ria", "zan", "kor", "tal", "xen", "ili", "dra",
           "nus", "mir", "pho", "lyr", "cyg" >>

\* syll[k] with its first letter in upper case
syllCap == << "Ka", "Tor", "Vel", "Ria", "Zan", "Kor", "Tal", "Xen", "Ili", "Dra",
              "Nus", "Mir", "Pho", "Lyr", "Cyg" >>

\* one name of defaultNames, read from the values d the name stream gives
\* from the planet's first draw on
DefaultName(d) ==
    IF LessHalf(d[1])
    THEN prefixes[MulRand(d[2], Len(prefixes)) + 1] \o " "
           \o suffixes[MulRand(d[3], Len(suffixes)) + 1]
    ELSE IF 2 + MulRand(d[2], 2) = 2
         THEN syllCap[MulRand(d[3], Len(syll)) + 1] \o syll[MulRand(d[4], Len(syll)) + 1]
         ELSE syllCap[MulRand(d[3], Len(syll)) + 1] \o syll[MulRand(d[4], Len(syll)) + 1]
                \o syll[MulRand(d[5], Len(syll)) + 1]

\* the number of values one name takes from the stream
NameDraws(d) == IF LessHalf(d[1]) THEN 3 ELSE 2 + (2 + MulRand(d[2], 2))

\* the loop of defaultNames over n planets from index i on; t is the state
\* of the name stream, consumed planet by planet
RECURSIVE DefaultNamesFrom(_, _, _)
DefaultNamesFrom(n, i, t) ==
    IF i >= n THEN << >>
    ELSE << DefaultName(Draws(t, 5)) >>
         \o DefaultNamesFrom(n, i + 1, StreamState(t, NameDraws(Draws(t, 5))))

BuildDefaultNames(seedv, n) ==
    DefaultNamesFrom(n, 0, WXor(ToWord(seedv), ToWord(NameSalt)))

(***************************************************************************)
(* Bounds of the model and the inputs the handlers are tried with          *)
(***************************************************************************)
\* user operations explored after the component has mounted
MaxOps == 3

\* planet rows of PlanetListControls that are edited (indices below it)
MaxEditIndex == 2

MaxBelts == 3

MaxStations == 2

\* particles of a belt that are kept in a frame (the count is kept whole)
MaxParticles == 2

InitSeed == 123456789

InitNumPlanets == 6

MaxPlanets == 20

\* values of Math.floor(Math.random() * 1e9)
RandomSeeds == { 326616533 }

\* values typed into the seed field (an empty field gives 0)
TypedSeeds == { 0 }

\* values of the planets slider / number field, before clamping
NumInputs == { -1, 2, 25 }

\* seeds and planet counts of the documents offered to import
DocSeed == 42

DocPlanets == 21

SeedSpace == { InitSeed, DocSeed } \cup RandomSeeds \cup TypedSeeds

\* the planet counts of the model: the clamped inputs, the initial count and
\* the lengths of the documents' planets arrays
CountSpace ==
    { Max(0, Min(MaxPlanets, v)) : v \in NumInputs }
    \cup { InitNumPlanets, 0, 1, 3, DocPlanets }

\* the most moons a planet row accepts
maxMoons == 10

\* the moonsCount of the hand-written document whose numbers are out of the
\* controls' ranges
DocMoons == 12

\* the salt of the stream the moons of a planet are placed from
MoonStreamSalt == 12648430   \* 0xc0ffee

\* the draws of the moon stream of each planet that can be given moons, and
\* of the two streams of each belt, each computed once
moonDrawsOf ==
    [ s \in SeedSpace |-> [ idx \in 0 .. MaxEditIndex - 1 |->
        [ k \in 1 .. 3 * Max(maxMoons, DocMoons) |->
            Draw(MixSeed(s, MoonStreamSalt, idx + 1), k) ] ] ]

\* basePlanets and defaultNames for every seed and count of the model,
\* each built once by the loops above
basePlanetsOf == [ s \in SeedSpace |-> [ n \in CountSpace |-> BuildBasePlanets(s, n) ] ]

defaultNamesOf == [ s \in SeedSpace |-> [ n \in CountSpace |-> BuildDefaultNames(s, n) ] ]

(***************************************************************************)
(* StarSystemEditor: state                                                 *)
(***************************************************************************)
VARIABLES
    mounted,              \* the mount effects have run
    numPlanets, seed,
    planetOverrides,      \* sequence of PlanetModel overrides, index i at i + 1
    customNames,          \* Record<number, string>: a function on its keys
    labelSize, labelColor, showLabelBackground, labelPosition,
    fullBleed,
    belts, stations, placingStationIndex,
    renderMode, exportSizePreset, exporting,
    basePlanets, defaultNames, planets,   \* the useMemo values
    frame,                \* what the mounted renderer painted last
    loading,              \* the Images left waiting for onload: a bag of their src
    available,            \* the browser's list of available images, by URL
    raf,                  \* draws queued by requestAnimationFrame
    passes,               \* canvas passes followed load by load
    file,                 \* the JSON document downloaded last
    inflight,             \* the pending asynchronous exports
    out,                  \* what the last handler showed or downloaded
    ops,                  \* user operations so far
    budget                \* user operations explored in this behaviour

editorVars == << numPlanets, seed, planetOverrides, customNames, labelSize,
                 labelColor, showLabelBackground, labelPosition, fullBleed,
                 belts, stations, placingStationIndex, renderMode,
                 exportSizePreset, exporting >>

vars == << mounted, numPlanets, seed, planetOverrides, customNames, labelSize,
           labelColor, showLabelBackground, labelPosition, fullBleed, belts,
           stations, placingStationIndex, renderMode, exportSizePreset,
           exporting, basePlanets, defaultNames, planets, frame, loading,
           available, raf, passes, file, inflight, out, ops, budget >>

\* a PlanetModel with no field set; an empty array slot reads the same
EmptyOverride ==
    [ size |-> None, color |-> None, moons |-> None, showLabel |-> None,
      rings |-> None, name |-> None ]

\* planetOverrides[i], undefined past the end
OverrideAt(overrides, i) ==
    IF i + 1 \in DOMAIN overrides THEN overrides[i + 1] ELSE EmptyOverride

\* a name chain that asks the generated names first
getPlanetNameDefaultFirst(names, overrides, defaults, index) ==
    IF index + 1 \in DOMAIN defaults THEN defaults[index + 1]
    ELSE IF index \in DOMAIN names THEN names[index]
    ELSE IF IsSome(OverrideAt(overrides, index).name)
         THEN Val(OverrideAt(overrides, index).name)
    ELSE "Planet " \o ToString(index + 1)

\* customNames[index] ?? planetOverrides[index]?.name ?? defaultNames[index]
\*   ?? `Planet ${index + 1}`
getPlanetName(names, overrides, defaults, index) ==
    IF index \in DOMAIN names THEN names[index]
    ELSE IF IsSome(OverrideAt(overrides, index).name)
         THEN Val(OverrideAt(overrides, index).name)
    ELSE IF index + 1 \in DOMAIN defaults THEN defaults[index + 1]
    ELSE "Planet " \o ToString(index + 1)

\* one element of the composed planets
ComposePlanet(src, ov, name) ==
    [ orbitRadius |-> src.orbitRadius,
      angle       |-> src.angle,
      size        |-> IF IsSome(ov.size) THEN Val(ov.size) ELSE src.size,
      color       |-> IF IsSome(ov.color) THEN Val(ov.color) ELSE src.color,
      name        |-> name,
      moons       |-> ov.moons,
      rings       |-> Coalesce(ov.rings, src.rings),
      showLabel   |-> ov.showLabel ]

\* planets = basePlanets.map((src, i) => ...)
ComposePlanets(base, overrides, names, defaults) ==
    [ k \in 1 .. Len(base) |->
        ComposePlanet(base[k], OverrideAt(overrides, k - 1),
                      getPlanetName(names, overrides, defaults, k - 1)) ]

\* the effect that keeps planetOverrides as long as basePlanets:
\* copy.length = basePlanets.length
SyncOverrides(overrides, n) ==
    IF Len(overrides) = n THEN overrides
    ELSE [ k \in 1 .. n |-> OverrideAt(overrides, k - 1) ]

(***************************************************************************)
(* The belt stage of the two renderers                                     *)
(***************************************************************************)
BeltSalt == 2839          \* 0xb17

beltDrawsOf ==
    [ s \in SeedSpace |-> [ bi \in 0 .. MaxBelts - 1 |->
        [ radius    |-> Draw(MixSeed(s, BeltSalt, bi * 293), 1),
          particles |-> [ k \in 1 .. 3 * MaxParticles |->
                            Draw(MixSeed(s, BeltSalt, bi * 97 + 777), k) ] ] ] ]

beltFloor == 50

beltMinR == 80

emptyLastOrbit == 300

particleCeiling == 900

\* planets[k], undefined outside the array
PlanetAt(planetsv, k) ==
    IF k + 1 \in DOMAIN planetsv THEN Some(planetsv[k + 1]) ELSE None

\* belt.type === "anchored" && typeof belt.gapIndex === "number"
IsAnchored(belt) == belt.type = "anchored" /\ IsSome(belt.gapIndex)

\* edges that take the whole width off the centre radius
BeltEdgesWholeWidth(radius, width) ==
    LET inner == Max(beltFloor * Unit, radius - width)
    IN  [ kind |-> "drawn", inner |-> inner, outer |-> inner + width ]

\* inner and outer radius from the centre radius and the width
BeltEdges(radius, width) ==
    LET inner == Max(beltFloor * Unit, radius - width \div 2)
    IN  [ kind |-> "drawn", inner |-> inner, outer |-> inner + width ]

\* the anchored branch without its guard: reading orbitRadius of a missing
\* planet throws
AnchoredEdgesUnguarded(planetsv, belt) ==
    LET a == PlanetAt(planetsv, Val(belt.gapIndex))
        b == PlanetAt(planetsv, Val(belt.gapIndex) + 1)
    IN  IF ~IsSome(a) \/ ~IsSome(b)
        THEN [ kind |-> "threw", inner |-> 0, outer |-> 0 ]
        ELSE [ kind |-> "drawn",
               inner |-> Max(beltFloor * Unit,
                             (Val(a).orbitRadius + Val(b).orbitRadius) \div 2
                             - belt.width \div 2),
               outer |-> Max(beltFloor * Unit,
                             (Val(a).orbitRadius + Val(b).orbitRadius) \div 2
                             - belt.width \div 2) + belt.width ]

\* the anchored branch: skipped when planet gapIndex or gapIndex + 1 is missing
AnchoredEdges(planetsv, belt) ==
    LET a == PlanetAt(planetsv, Val(belt.gapIndex))
        b == PlanetAt(planetsv, Val(belt.gapIndex) + 1)
    IN  IF ~IsSome(a) \/ ~IsSome(b)
        THEN [ kind |-> "skipped", inner |-> 0, outer |-> 0 ]
        ELSE BeltEdges((Val(a).orbitRadius + Val(b).orbitRadius) \div 2, belt.width)

\* a free branch that places only the belts whose type is "free"
FreeEdgesOfFreeBelts(u, planetsv, belt) ==
    IF belt.type # "free"
    THEN [ kind |-> "skipped", inner |-> 0, outer |-> 0 ]
    ELSE LET lastOrbit == IF Len(planetsv) > 0 THEN planetsv[Len(planetsv)].orbitRadius
                          ELSE emptyLastOrbit * Unit
             minR == beltMinR * Unit
             maxR == Max(minR + 60 * Unit, lastOrbit + 120 * Unit)
         IN  BeltEdges(minR + MulRand(u, maxR - minR), belt.width)

\* the free branch: a radius between minR and maxR, from the value u of the
\* radius stream of the belt
FreeEdges(u, planetsv, belt) ==
    LET lastOrbit == IF Len(planetsv) > 0 THEN planetsv[Len(planetsv)].orbitRadius
                     ELSE emptyLastOrbit * Unit
        minR == beltMinR * Unit
        maxR == Max(minR + 60 * Unit, lastOrbit + 120 * Unit)
    IN  BeltEdges(minR + MulRand(u, maxR - minR), belt.width)

\* Math.floor(900 * Math.min(1, Math.max(0, belt.density)))
ParticleCount(belt) == (particleCeiling * Min(Milli, Max(0, belt.density))) \div Milli

\* particle j (from 0) of a belt: angle, radius and size off the values w of
\* its particle stream
Particle(w, edges, j) ==
    [ ang |-> TurnOf(w[3 * j + 1]),
      rr  |-> edges.inner + MulRand(w[3 * j + 2], edges.outer - edges.inner),
      s   |-> Unit \div 2 + MulRand(w[3 * j + 3], (12 * Unit) \div 10) ]

\* what one belt adds to the picture: its edges, the number of particles and
\* the first MaxParticles of them
BeltDrawing(w, edges, belt) ==
    IF edges.kind # "drawn"
    THEN [ kind |-> edges.kind, inner |-> 0, outer |-> 0, count |-> 0, particles |-> << >> ]
    ELSE [ kind |-> "drawn", inner |-> edges.inner, outer |-> edges.outer,
           count |-> ParticleCount(belt),
           particles |-> [ j \in 1 .. Min(ParticleCount(belt), MaxParticles) |->
                             Particle(w, edges, j - 1) ] ]

\* StarCanvas renderScene, "Belts (per config)": one belt, d the values of
\* its two streams
CanvasBelt(d, planetsv, belt) ==
    BeltDrawing(d.particles,
                IF IsAnchored(belt) THEN AnchoredEdges(planetsv, belt)
                ELSE FreeEdges(d.radius, planetsv, belt),
                belt)

\* Number.prototype.toFixed(2) of a length v: the hundredths it is written
\* with, rounded to the nearest
ToFixed2(v) == (v * 100 + Unit \div 2) \div Unit

\* particle j (from 0) of a belt in StarSvg: beltsData keeps x, y and s, and
\* beltsMarkup writes the three with toFixed(2); the model keeps the angle
\* and radius the position is computed from and the side s as written
SvgParticle(w, edges, j) ==
    [ ang |-> TurnOf(w[3 * j + 1]),
      rr  |-> edges.inner + MulRand(w[3 * j + 2], edges.outer - edges.inner),
      s   |-> ToFixed2(Unit \div 2 + MulRand(w[3 * j + 3], (12 * Unit) \div 10)) ]

\* what one belt adds to the SVG markup; a skipped belt pushes no particles
SvgBeltData(w, edges, belt) ==
    IF edges.kind # "drawn"
    THEN [ kind |-> edges.kind, inner |-> 0, outer |-> 0, count |-> 0, particles |-> << >> ]
    ELSE [ kind |-> "drawn", inner |-> edges.inner, outer |-> edges.outer,
           count |-> ParticleCount(belt),
           particles |-> [ j \in 1 .. Min(ParticleCount(belt), MaxParticles) |->
                             SvgParticle(w, edges, j - 1) ] ]

\* StarSvg beltsData: one belt, d the values of its two streams
SvgBelt(d, planetsv, belt) ==
    SvgBeltData(d.particles,
                IF IsAnchored(belt) THEN AnchoredEdges(planetsv, belt)
                ELSE FreeEdges(d.radius, planetsv, belt),
                belt)

\* the belt stage of the mounted renderer over all belts, belt bi at bi + 1
BeltStage(mode, draws, planetsv, beltsv) ==
    [ k \in 1 .. Len(beltsv) |->
        IF mode = "canvas" THEN CanvasBelt(draws[k - 1], planetsv, beltsv[k])
        ELSE SvgBelt(draws[k - 1], planetsv, beltsv[k]) ]

\* the layers of one pass, in painting order
canvasLayers == << "background", "starfield", "stars", "belts", "orbits",
                   "planets", "stations", "labels", "hud" >>

svgLayers == << "background", "starfield", "stars", "orbits", "planets",
                "belts", "stations", "labels" >>

\* the layers painted after the belts when the belt stage is interrupted at
\* belt k: none (a thrown error leaves renderScene, or fails the render)
LayersOf(mode, beltDrawings) ==
    IF \E k \in DOMAIN beltDrawings : beltDrawings[k].kind = "threw"
    THEN IF mode = "canvas" THEN << "background", "starfield", "stars" >> ELSE << >>
    ELSE IF mode = "canvas" THEN canvasLayers ELSE svgLayers

\* the moon settings of the page, which have no setter, and the globalMoons
\* it passes to both renderers
showMoons == TRUE

moonMinSize == 1

moonMaxSize == 3

moonOrbitMin == 10

moonOrbitMax == 22

globalMoons == 0

\* v * m / 1000 for a ratio m in thousandths
TimesMilli(v, m) == (v \div Milli) * m + ((v % Milli) * m) \div Milli

\* the centre cx + cos(angle) * radius, cy + sin(angle) * radius, kept as the
\* angle and radius it is computed from
Polar(angle, radius) == [ ang |-> angle, r |-> radius ]

\* the centre line of the rings of planet p, as both renderers compute it:
\* mid = size + max(0, gap) + max(1, width) / 2 and the clamped flatten
RingMid(p) ==
    p.size + Max(0, Val(p.rings).gap) + Max(Unit, Val(p.rings).width) \div 2

RingFlatten(p) == Min(Milli, Max(200, Val(p.rings).flatten))

\* p.rings?.enabled
HasRings(p) == IsSome(p.rings) /\ Val(p.rings).enabled

\* StarCanvas renderScene, "Draw planets": the centre, the body and, behind
\* it, the ring: an arc of radius mid under rotate(angle) and scale(1, flatten)
CanvasPlanetMark(p) ==
    [ centre |-> Polar(p.angle, p.orbitRadius),
      size   |-> p.size,
      ring   |-> IF HasRings(p)
                 THEN Some([ rx |-> RingMid(p),
                             ry |-> TimesMilli(RingMid(p), RingFlatten(p)),
                             rotation |-> Val(p.rings).angleDeg * 100 ])
                 ELSE None ]

\* StarSvg planetElems: the ellipse rx = mid, ry = mid * flatten under
\* rotate((angle * 180 / PI).toFixed(2)), in hundredths of a degree
SvgPlanetMark(p) ==
    [ centre |-> Polar(p.angle, p.orbitRadius),
      size   |-> p.size,
      ring   |-> IF HasRings(p)
                 THEN Some([ rx |-> RingMid(p),
                             ry |-> TimesMilli(RingMid(p), RingFlatten(p)),
                             rotation |-> ToFixed2(Val(p.rings).angleDeg * Unit) ])
                 ELSE None ]

\* moon m (from 0) of planet p in StarCanvas: angle, radius p.size + mOrbit of
\* its orbit around the planet and size, off the values w of the planet's
\* moon stream
Moon(w, p, m) ==
    [ ma    |-> TurnOf(w[3 * m + 1]),
      orbit |-> p.size + moonOrbitMin * Unit
                + MulRand(w[3 * m + 2], Max(0, moonOrbitMax - moonOrbitMin) * Unit),
      size  |-> moonMinSize * Unit
                + MulRand(w[3 * m + 3], (moonMaxSize - moonMinSize) * Unit) ]

\* (typeof p.moons === 'number' ? p.moons : globalMoons) ?? 0, when moons show
MoonCount(p) ==
    IF showMoons /\ moonMaxSize >= moonMinSize
    THEN IF IsSome(p.moons) THEN Val(p.moons) ELSE globalMoons
    ELSE 0

\* the moons StarCanvas draws around planet p, w the values of its stream
MoonsOf(w, p) == [ m \in 1 .. MoonCount(p) |-> Moon(w, p, m - 1) ]

\* StarSvg moonData: the count of planet p
SvgMoonCount(p) ==
    IF showMoons /\ moonMaxSize >= moonMinSize
    THEN (IF IsSome(p.moons) THEN Val(p.moons) ELSE globalMoons)
    ELSE 0

\* StarSvg moonData: moon m (from 0) of planet p, with orbitRadius = p.size + mOrbit
SvgMoon(w, p, m) ==
    [ ma    |-> TurnOf(w[3 * m + 1]),
      orbit |-> p.size + (moonOrbitMin * Unit
                + MulRand(w[3 * m + 2], Max(0, moonOrbitMax - moonOrbitMin) * Unit)),
      size  |-> moonMinSize * Unit
                + MulRand(w[3 * m + 3], (moonMaxSize - moonMinSize) * Unit) ]

\* the entries of moonData whose parentIndex is the planet's index
SvgMoonsOf(w, p) == [ m \in 1 .. SvgMoonCount(p) |-> SvgMoon(w, p, m - 1) ]

\* opacity.toFixed(2) of an opacity in thousandths: the hundredths written
OpacityToFixed2(o) == (o + 5) \div 10

\* StarCanvas renderScene, the ring of planet p as it is stroked: gap and
\* lineWidth (lengths), globalAlpha (thousandths) and the scale(1, flatten)
CanvasRingStroke(p) ==
    IF HasRings(p)
    THEN Some([ gap     |-> Max(0, Val(p.rings).gap),
                width   |-> Max(Unit, Val(p.rings).width),
                opacity |-> Min(Milli, Max(0, Val(p.rings).opacity)),
                flatten |-> RingFlatten(p) ])
    ELSE None

\* StarSvg planetElems, the ring of planet p as the ellipse is written:
\* stroke-width, the opacity attribute (hundredths, toFixed(2)) and ry / rx
SvgRingStroke(p) ==
    IF HasRings(p)
    THEN Some([ gap     |-> Max(0, Val(p.rings).gap),
                width   |-> Max(Unit, Val(p.rings).width),
                opacity |-> OpacityToFixed2(Min(Milli, Max(0, Val(p.rings).opacity))),
                flatten |-> RingFlatten(p) ])
    ELSE None

\* the orbit circle and the body of each of n moons, moon by moon
MoonStrokes(n) == [ i \in 1 .. 2 * n |-> IF i % 2 = 1 THEN "moon orbit" ELSE "moon" ]

\* a planet whose ring is stroked after its body
CanvasPlanetStrokesBodyFirst(p) ==
    << "shadow", "body", "highlight" >>
    \o (IF HasRings(p) THEN << "ring" >> ELSE << >>)
    \o MoonStrokes(MoonCount(p))

\* StarCanvas renderScene, "Draw planets": what is painted for planet p, in
\* the order of the calls: the ring behind the body, the shadow disc, the
\* body, the highlight, then for each moon its orbit and its body
CanvasPlanetStrokes(p) ==
    (IF HasRings(p) THEN << "ring" >> ELSE << >>)
    \o << "shadow", "body", "highlight" >>
    \o MoonStrokes(MoonCount(p))

\* StarSvg planetElems: the elements pushed for planet p, in order
SvgPlanetStrokes(p) ==
    (IF HasRings(p) THEN << "ring" >> ELSE << >>)
    \o << "shadow", "body", "highlight" >>
    \o MoonStrokes(SvgMoonCount(p))

\* the station rows whose customIconDataUrl is truthy
HasCustomIcon(st) == IsSome(st.customIconDataUrl) /\ Val(st.customIconDataUrl) # ""

CustomIcons(stationsv) == { k \in DOMAIN stationsv : HasCustomIcon(stationsv[k]) }

\* a station pass in which an image that is not complete throws
CanvasStationMarkThrowing(st, complete) ==
    [ centre |-> Polar(st.angle, st.radius),
      size   |-> st.size,
      color  |-> st.color,
      icon   |-> IF HasCustomIcon(st)
                 THEN (IF complete THEN "image" ELSE "threw")
                 ELSE IF st.iconType \in { "diamond", "triangle", "square", "cross" }
                      THEN st.iconType
                      ELSE "satellite" ]

\* StarCanvas renderScene, "Draw stations": station k; a custom image is drawn
\* only when img.complete holds at draw time, else nothing is drawn for the
\* icon and the pass goes on
CanvasStationMark(st, complete) ==
    [ centre |-> Polar(st.angle, st.radius),
      size   |-> st.size,
      color  |-> st.color,
      icon   |-> IF HasCustomIcon(st)
                 THEN (IF complete THEN "image" ELSE "omitted")
                 ELSE IF st.iconType \in { "diamond", "triangle", "square", "cross" }
                      THEN st.iconType
                      ELSE "satellite" ]

\* StarSvg stationElems: an <image> for a custom icon, else the shape
SvgStationMark(st) ==
    [ centre |-> Polar(st.angle, st.radius),
      size   |-> st.size,
      color  |-> st.color,
      icon   |-> IF HasCustomIcon(st) THEN "image"
                 ELSE IF st.iconType \in { "diamond", "triangle", "square", "cross" }
                      THEN st.iconType
                      ELSE "satellite" ]

\* the texts of the labels of one pass: the planets whose showLabel is not
\* false, then the stations whose showLabel is not false
RECURSIVE LabelsFrom(_, _)
LabelsFrom(items, k) ==
    IF k > Len(items) THEN << >>
    ELSE (IF items[k].showLabel # Some(FALSE) THEN << items[k].name >> ELSE << >>)
         \o LabelsFrom(items, k + 1)

\* StarCanvas renderScene, "Labels" and "station labels"
CanvasLabels(planetsv, stationsv) == LabelsFrom(planetsv, 1) \o LabelsFrom(stationsv, 1)

\* StarSvg labelData
SvgLabels(planetsv, stationsv) == LabelsFrom(planetsv, 1) \o LabelsFrom(stationsv, 1)

\* the layers of a canvas pass: a throw in the station stage leaves
\* renderScene before the labels and the HUD
CanvasLayersOf(beltDrawings, stationMarks) ==
    IF \E k \in DOMAIN stationMarks : stationMarks[k].icon = "threw"
    THEN << "background", "starfield", "stars", "belts", "orbits", "planets" >>
    ELSE LayersOf("canvas", beltDrawings)

\* what one pass leaves on the screen
Frame(mode, complete, marks, strokes, rings, moons, drawings, icons, labels, layers) ==
    [ mode |-> mode, complete |-> complete, planets |-> marks,
      strokes |-> strokes, rings |-> rings, moons |-> moons,
      belts |-> drawings, stations |-> icons,
      labels |-> labels, layers |-> layers ]

\* a canvas pass from what its stages draw
CanvasFrame(complete, marks, strokes, rings, moons, beltDrawings, stationMarks, labels) ==
    Frame("canvas", complete, marks, strokes, rings, moons, beltDrawings,
          stationMarks, labels,
          CanvasLayersOf(beltDrawings, stationMarks))

\* StarCanvas renderScene; md and bd are the values of the moon and belt
\* streams of the seed, complete the stations whose image is complete when
\* the pass, or the redraw its onload asks for, reaches them
CanvasPass(md, bd, planetsv, beltsv, stationsv, complete) ==
    CanvasFrame(complete \cap CustomIcons(stationsv),
                [ k \in 1 .. Len(planetsv) |-> CanvasPlanetMark(planetsv[k]) ],
                [ k \in 1 .. Len(planetsv) |-> CanvasPlanetStrokes(planetsv[k]) ],
                [ k \in 1 .. Len(planetsv) |-> CanvasRingStroke(planetsv[k]) ],
                [ k \in 1 .. Len(planetsv) |-> MoonsOf(md[k - 1], planetsv[k]) ],
                BeltStage("canvas", bd, planetsv, beltsv),
                [ k \in 1 .. Len(stationsv) |->
                    CanvasStationMark(stationsv[k], k \in complete) ],
                CanvasLabels(planetsv, stationsv))

\* an SVG render from what its memoized parts hold
SvgFrame(planetMarks, strokes, rings, moons, beltDrawings, stationMarks, labels) ==
    Frame("svg", { }, planetMarks, strokes, rings, moons, beltDrawings, stationMarks,
          labels,
          LayersOf("svg", beltDrawings))

\* StarSvg: moonData, beltsData, labelData and the markup
SvgPass(md, bd, planetsv, beltsv, stationsv) ==
    SvgFrame([ k \in 1 .. Len(planetsv) |-> SvgPlanetMark(planetsv[k]) ],
             [ k \in 1 .. Len(planetsv) |-> SvgPlanetStrokes(planetsv[k]) ],
             [ k \in 1 .. Len(planetsv) |-> SvgRingStroke(planetsv[k]) ],
             [ k \in 1 .. Len(planetsv) |-> SvgMoonsOf(md[k - 1], planetsv[k]) ],
             BeltStage("svg", bd, planetsv, beltsv),
             [ k \in 1 .. Len(stationsv) |-> SvgStationMark(stationsv[k]) ],
             SvgLabels(planetsv, stationsv))

\* one pass of the renderer of the mode
PassOf(mode, md, bd, planetsv, beltsv, stationsv, complete) ==
    IF mode = "canvas" THEN CanvasPass(md, bd, planetsv, beltsv, stationsv, complete)
    ELSE SvgPass(md, bd, planetsv, beltsv, stationsv)

\* one pass of the mounted renderer
Paint(mode, seedv, planetsv, beltsv, stationsv, complete) ==
    PassOf(mode, moonDrawsOf[seedv], beltDrawsOf[seedv], planetsv, beltsv, stationsv, complete)

(***************************************************************************)
(* Rendering after a handler: the useMemo values, the length effect and    *)
(* the repaint                                                             *)
(***************************************************************************)
\* the editor's state as one record; a handler maps it to the next one
Cur ==
    [ numPlanets |-> numPlanets, seed |-> seed,
      planetOverrides |-> planetOverrides, customNames |-> customNames,
      labelSize |-> labelSize, labelColor |-> labelColor,
      showLabelBackground |-> showLabelBackground,
      labelPosition |-> labelPosition, fullBleed |-> fullBleed,
      belts |-> belts, stations |-> stations,
      placingStationIndex |-> placingStationIndex,
      renderMode |-> renderMode, exportSizePreset |-> exportSizePreset,
      exporting |-> exporting ]

\* what a handler shows: the alert raised and the file handed to the browser;
\* for an export that went through a renderer's exportPNG, the conditions it
\* ran under and the value it returned
Quiet == [ alert |-> "", download |-> "", env |-> None, returned |-> None ]

\* the record kept of the last handler h, which showed o
Shown(h, o) ==
    [ handler |-> h, alert |-> o.alert, download |-> o.download,
      env |-> o.env, returned |-> o.returned ]

Alert(msg) == [ Quiet EXCEPT !.alert = msg ]

Download(kind) == [ Quiet EXCEPT !.download = kind ]

\* o, for a handler that got url from exportPNG running under env
Answered(o, env, url) == [ o EXCEPT !.env = Some(env), !.returned = Some(url) ]

\* a dependency list of basePlanets that leaves the seed out: [numPlanets]
BaseDepsWithoutSeed(s) == s.numPlanets # numPlanets

\* the dependency list of basePlanets has changed: [numPlanets, seed]
BaseDepsChanged(s) == s.numPlanets # numPlanets \/ s.seed # seed

\* the dependency list of defaultNames has changed: [basePlanets, seed]
NameDepsChanged(s, base) == base # basePlanets \/ s.seed # seed

\* the dependency lists of planets and getPlanetName have changed
PlanetDepsChanged(s, base, ovs, defs) ==
    \/ base # basePlanets
    \/ ovs # planetOverrides
    \/ s.customNames # customNames
    \/ defs # defaultNames

\* the renderer repaints: a renderer was mounted, or the dependency list of
\* draw (StarCanvas) or of the markup and its parts (StarSvg) has changed
PaintDepsChanged(s, pls) ==
    \/ s.renderMode # renderMode
    \/ s.seed # seed
    \/ pls # planets
    \/ s.belts # belts
    \/ s.stations # stations
    \/ s.labelSize # labelSize
    \/ s.labelColor # labelColor
    \/ s.showLabelBackground # showLabelBackground
    \/ s.labelPosition # labelPosition

\* the sets of station images that can be complete in a pass of the mode
CompleteChoices(mode, stationsv) ==
    IF mode = "canvas" THEN SUBSET CustomIcons(stationsv) ELSE { { } }

\* the state after the updates s of handler h have been rendered and the
\* effects have run; o is what the handler showed, f the file the user holds,
\* p the pending exports
Commit(h, s, o, f, p) ==
    \E base \in { IF ~mounted \/ BaseDepsChanged(s)
                  THEN basePlanetsOf[s.seed][s.numPlanets] ELSE basePlanets } :
    \E defs \in { IF ~mounted \/ NameDepsChanged(s, base)
                  THEN defaultNamesOf[s.seed][Len(base)] ELSE defaultNames } :
    \E ovs \in { IF ~mounted \/ Len(base) # Len(basePlanets)
                 THEN SyncOverrides(s.planetOverrides, Len(base))
                 ELSE s.planetOverrides } :
    \E pls \in { IF ~mounted \/ PlanetDepsChanged(s, base, ovs, defs)
                 THEN ComposePlanets(base, ovs, s.customNames, defs) ELSE planets } :
        /\ mounted' = TRUE
        /\ numPlanets' = s.numPlanets
        /\ seed' = s.seed
        /\ planetOverrides' = ovs
        /\ customNames' = s.customNames
        /\ labelSize' = s.labelSize
        /\ labelColor' = s.labelColor
        /\ showLabelBackground' = s.showLabelBackground
        /\ labelPosition' = s.labelPosition
        /\ fullBleed' = s.fullBleed
        /\ belts' = s.belts
        /\ stations' = s.stations
        /\ placingStationIndex' = s.placingStationIndex
        /\ renderMode' = s.renderMode
        /\ exportSizePreset' = s.exportSizePreset
        /\ exporting' = s.exporting
        /\ basePlanets' = base
        /\ defaultNames' = defs
        /\ planets' = pls
        /\ IF ~mounted \/ PaintDepsChanged(s, pls)
           THEN \E complete \in CompleteChoices(s.renderMode, s.stations) :
                  frame' = Paint(s.renderMode, s.seed, pls, s.belts, s.stations, complete)
           ELSE frame' = frame
        /\ UNCHANGED << loading, available, raf, passes >>
        /\ file' = f
        /\ inflight' = p
        /\ out' = Shown(h, o)

\* a user operation: the component has mounted and the budget is not used up
UserOp(h, s, o, f, p) ==
    /\ mounted
    /\ ops < budget
    /\ ops' = ops + 1
    /\ budget' = budget
    /\ \E next \in { s } : Commit(h, next, o, f, p)

\* the state after construction: the useState initial values and the first
\* useMemo values
Constructed ==
    /\ mounted = FALSE
    /\ numPlanets = InitNumPlanets
    /\ seed = InitSeed
    /\ planetOverrides = << >>
    /\ customNames = << >>
    /\ labelSize = 12
    /\ labelColor = "#ffffff"
    /\ showLabelBackground = FALSE
    /\ labelPosition = "top-left"
    /\ fullBleed = FALSE
    /\ belts = << >>
    /\ stations = << >>
    /\ placingStationIndex = None
    /\ renderMode = "canvas"
    /\ exportSizePreset = "1280x720"
    /\ exporting = FALSE
    /\ basePlanets = basePlanetsOf[InitSeed][InitNumPlanets]
    /\ defaultNames = defaultNamesOf[InitSeed][InitNumPlanets]
    /\ planets = ComposePlanets(basePlanets, << >>, << >>, defaultNames)
    /\ frame = Frame("canvas", { }, << >>, << >>, << >>, << >>, << >>, << >>, << >>, << >>)
    /\ loading = EmptyBag
    /\ available = { }
    /\ raf = 0
    /\ passes = 0
    /\ file = None
    /\ inflight = << >>
    /\ out = Shown("", Quiet)
    /\ ops = 0

Init == Constructed /\ budget = MaxOps

\* the mount effects: the overrides get the planets' length, the canvas is
\* painted and the seed is randomized
Mount ==
    /\ ~mounted
    /\ \E r \in RandomSeeds :
         \E next \in { [Cur EXCEPT !.seed = r] } : Commit("mount", next, Quiet, file, inflight)
    /\ ops' = ops
    /\ budget' = budget

(***************************************************************************)
(* Header controls                                                         *)
(***************************************************************************)
\* Math.max(0, Math.min(20, Math.floor(value)))
ClampCount(value) == Max(0, Min(MaxPlanets, value))

handleNumChange(value) ==
    UserOp("handleNumChange", [Cur EXCEPT !.numPlanets = ClampCount(value)], Quiet, file, inflight)

\* the seed field: setSeed(Number(e.target.value) || 0)
SetSeed(value) == UserOp("SetSeed", [Cur EXCEPT !.seed = value], Quiet, file, inflight)

regenerate(r) == UserOp("regenerate", [Cur EXCEPT !.seed = r], Quiet, file, inflight)

SetRenderMode(m) == UserOp("SetRenderMode", [Cur EXCEPT !.renderMode = m], Quiet, file, inflight)

(***************************************************************************)
(* Planet rows (PlanetListControls) and the page's onChange                *)
(***************************************************************************)
\* values typed into the fields of a planet row, before clamping
NameInputs == { "", "Vega" }

SizeInputs == { 30 }

MoonInputs == { 2, 12 }

ColorInputs == { "#ff0000" }

defaultRings ==
    [ enabled |-> TRUE, gap |-> 2 * Unit, width |-> 10 * Unit, color |-> "#c9b18b",
      opacity |-> 550, flatten |-> 600, angleDeg |-> 45 ]

\* { ...old, ...updates }: a field of updates that is present wins
MergeOverride(old, updates) ==
    [ size      |-> IF IsSome(updates.size) THEN updates.size ELSE old.size,
      color     |-> IF IsSome(updates.color) THEN updates.color ELSE old.color,
      moons     |-> IF IsSome(updates.moons) THEN updates.moons ELSE old.moons,
      showLabel |-> IF IsSome(updates.showLabel) THEN updates.showLabel ELSE old.showLabel,
      rings     |-> IF IsSome(updates.rings) THEN updates.rings ELSE old.rings,
      name      |-> IF IsSome(updates.name) THEN updates.name ELSE old.name ]

\* a merge that spreads the updates over every entry instead of entry index
AssignOverrideToAll(overrides, index, updates) ==
    [ k \in 1 .. Max(Len(overrides), index + 1) |->
        MergeOverride(OverrideAt(overrides, k - 1), updates) ]

\* copy[index] = { ...(copy[index] ?? {}), ...updates }
AssignOverride(overrides, index, updates) ==
    [ k \in 1 .. Max(Len(overrides), index + 1) |->
        IF k = index + 1 THEN MergeOverride(OverrideAt(overrides, index), updates)
        ELSE OverrideAt(overrides, k - 1) ]

\* { ...prev, [index]: name }
AssignName(names, index, name) ==
    [ k \in DOMAIN names \cup { index } |-> IF k = index THEN name ELSE names[k] ]

\* the updates the controls of row p can send
RowUpdates(p) ==
    { [ EmptyOverride EXCEPT !.name = Some(v) ] : v \in NameInputs }
    \cup { [ EmptyOverride EXCEPT !.showLabel = Some(~(p.showLabel # Some(FALSE))) ] }
    \cup { [ EmptyOverride EXCEPT !.size = Some(Max(2, Min(24, v)) * Unit) ] : v \in SizeInputs }
    \cup { [ EmptyOverride EXCEPT !.color = Some(v) ] : v \in ColorInputs }
    \cup { [ EmptyOverride EXCEPT !.moons = Some(Max(0, Min(maxMoons, v))) ] : v \in MoonInputs }
    \cup { [ EmptyOverride EXCEPT !.rings =
               Some([ Val(Coalesce(p.rings, Some(defaultRings))) EXCEPT
                        !.enabled = ~(IsSome(p.rings) /\ Val(p.rings).enabled) ]) ] }

\* the onChange the page passes to PlanetListControls
onChange(index, updates) ==
    UserOp("onChange", [Cur EXCEPT
              !.planetOverrides = AssignOverride(planetOverrides, index, updates),
              !.customNames = IF IsSome(updates.name)
                              THEN AssignName(customNames, index, Val(updates.name))
                              ELSE customNames ],
           Quiet, file, inflight)

(***************************************************************************)
(* Label and layout settings                                               *)
(***************************************************************************)
LabelSizeInputs == { 12, 20 }

LabelColorInputs == { "#ffffff", "#ffcc00" }

LabelPositions == { "top-left", "top-right", "bottom-left", "bottom-right" }

SetLabelSize(v) == UserOp("SetLabelSize", [Cur EXCEPT !.labelSize = v], Quiet, file, inflight)

SetLabelColor(v) == UserOp("SetLabelColor", [Cur EXCEPT !.labelColor = v], Quiet, file, inflight)

SetShowLabelBackground(v) ==
    UserOp("SetShowLabelBackground", [Cur EXCEPT !.showLabelBackground = v], Quiet, file, inflight)

SetLabelPosition(v) == UserOp("SetLabelPosition", [Cur EXCEPT !.labelPosition = v], Quiet, file, inflight)

SetFullBleed(v) == UserOp("SetFullBleed", [Cur EXCEPT !.fullBleed = v], Quiet, file, inflight)

(***************************************************************************)
(* Asteroid belts (AsteroidBeltsControls)                                  *)
(***************************************************************************)
WidthInputs == { 5, 250 }

DensityInputs == { 0, 1000 }

\* a.filter((_, i) => i !== idx)
RemoveAt(a, idx) ==
    [ k \in 1 .. Len(a) - 1 |-> IF k <= idx THEN a[k] ELSE a[k + 1] ]

\* the updates the controls of belt row b can send; a select reports a value
\* only when it differs from the one shown
BeltUpdates(b, planetsCount) ==
    { [ b EXCEPT !.type = t ] : t \in { "free", "anchored" } \ { b.type } }
    \cup { [ b EXCEPT !.gapIndex = Some(g) ] :
             g \in { g \in 0 .. planetsCount - 2 :
                       b.type = "anchored" /\ g # Val(Coalesce(b.gapIndex, Some(0))) } }
    \cup { [ b EXCEPT !.width = Max(10, Min(200, v)) * Unit ] : v \in WidthInputs }
    \cup { [ b EXCEPT !.density = v ] : v \in DensityInputs }

BeltAdd ==
    /\ Len(belts) < MaxBelts
    /\ UserOp("BeltAdd", [Cur EXCEPT !.belts = Append(belts,
                 [ type |-> "free", gapIndex |-> None, width |-> 80 * Unit,
                   density |-> 500 ])],
              Quiet, file, inflight)

BeltRemove(idx) ==
    UserOp("BeltRemove", [Cur EXCEPT !.belts = RemoveAt(belts, idx)], Quiet, file, inflight)

BeltChange(idx, b) ==
    UserOp("BeltChange", [Cur EXCEPT !.belts = [ belts EXCEPT ![idx + 1] = b ]], Quiet, file, inflight)

(***************************************************************************)
(* Space stations (SpaceStationsControls) and placing by a canvas click    *)
(***************************************************************************)
\* values of Date.now() when a station is added
Stamps == { 1700 }

StationNameInputs == { "Dock" }

StationSizeInputs == { 30 }

IconInputs == { "data:image/png;base64,AA" }

\* where the canvas is clicked: the offset dx = x - cx, dy = y - cy of the
\* pointer from the centre of the canvas rect, on one of the axes
ClickInputs == { [ dx |-> 0, dy |-> 200 * Unit ], [ dx |-> -150 * Unit, dy |-> 0 ] }

Abs(v) == IF v < 0 THEN -v ELSE v

\* Math.sqrt(dx * dx + dy * dy), for an offset on an axis
Hypot(dx, dy) ==
    CASE dx = 0 -> Abs(dy)
      [] dy = 0 -> Abs(dx)

\* Math.atan2(dy, dx) in 1/65536 of a turn, within (-1/2, 1/2] of a turn,
\* for an offset on an axis
Atan2(dy, dx) ==
    CASE dy = 0 /\ dx >= 0 -> 0
      [] dy = 0 /\ dx < 0  -> 32768
      [] dx = 0 /\ dy > 0  -> 16384
      [] dx = 0 /\ dy < 0  -> -16384

\* cos(angle) * radius, sin(angle) * radius of a centre whose angle is a
\* multiple of a quarter turn
PointOf(c) ==
    CASE c.ang % (4 * 16384) = 0     -> [ dx |-> c.r, dy |-> 0 ]
      [] c.ang % (4 * 16384) = 16384 -> [ dx |-> 0, dy |-> c.r ]
      [] c.ang % (4 * 16384) = 32768 -> [ dx |-> -c.r, dy |-> 0 ]
      [] c.ang % (4 * 16384) = 49152 -> [ dx |-> 0, dy |-> -c.r ]

defaultStation(stamp, i) ==
    [ id |-> ToString(stamp) \o "_" \o ToString(i),
      name |-> "",
      radius |-> (140 + i * 10) * Unit,
      angle |-> 0,
      iconType |-> "diamond",
      color |-> "#FFD54F",
      size |-> 8 * Unit,
      customIconDataUrl |-> None,
      showLabel |-> None ]

\* the updates the controls of station row st can send
StationUpdates(st) ==
    { [ st EXCEPT !.name = v ] : v \in StationNameInputs }
    \cup { [ st EXCEPT !.showLabel = Some(~(st.showLabel # Some(FALSE))) ] }
    \cup { [ st EXCEPT !.iconType = t ] : t \in { "triangle" } \ { st.iconType } }
    \cup { [ st EXCEPT !.customIconDataUrl = Some(v) ] : v \in IconInputs }
    \cup { [ st EXCEPT !.size = Max(4, Min(24, v)) * Unit ] : v \in StationSizeInputs }

StationAdd ==
    /\ Len(stations) < MaxStations
    /\ \E stamp \in Stamps :
         UserOp("StationAdd",
                [Cur EXCEPT !.stations = Append(stations, defaultStation(stamp, Len(stations)))],
                Quiet, file, inflight)

StationRemove(idx) ==
    UserOp("StationRemove", [Cur EXCEPT !.stations = RemoveAt(stations, idx)],
           Quiet, file, inflight)

StationChange(idx, st) ==
    UserOp("StationChange", [Cur EXCEPT !.stations = [ stations EXCEPT ![idx + 1] = st ]],
           Quiet, file, inflight)

onPlaceRequest(idx) ==
    UserOp("onPlaceRequest", [Cur EXCEPT !.placingStationIndex = Some(idx)],
           Quiet, file, inflight)

\* a placement that moves every station to the clicked point
onPlaceStationEvery(stationsv, idx, pos) ==
    [ k \in 1 .. Len(stationsv) |->
        [ stationsv[k] EXCEPT !.radius = pos.radius, !.angle = pos.angle ] ]

\* the page's onPlaceStation: prev.map((s, i) => i === idx ? { ...s, radius:
\* pos.radius, angle: pos.angle } : s)
onPlaceStation(stationsv, idx, pos) ==
    [ k \in 1 .. Len(stationsv) |->
        IF k - 1 = idx
        THEN [ stationsv[k] EXCEPT !.radius = pos.radius, !.angle = pos.angle ]
        ELSE stationsv[k] ]

\* StarCanvas handleClick at the offset at from the centre, and the page's
\* onPlaceStation
handleClick(at) ==
    /\ renderMode = "canvas"
    /\ IF ~IsSome(placingStationIndex)
       THEN UserOp("handleClick", Cur, Quiet, file, inflight)
       ELSE UserOp("handleClick",
                   [Cur EXCEPT
                      !.stations = onPlaceStation(stations, Val(placingStationIndex),
                                                  [ radius |-> Hypot(at.dx, at.dy),
                                                    angle |-> Atan2(at.dy, at.dx) ]),
                      !.placingStationIndex = None ],
                   Quiet, file, inflight)

(***************************************************************************)
(* PNG exports                                                             *)
(***************************************************************************)
ExportPresets == { "1280x720", "3840x2160" }

\* the conditions an offscreen rendering runs under: whether getContext("2d")
\* gives a context and whether the SVG document loads as an image
ExportEnvs == [ context : BOOLEAN, loads : BOOLEAN ]

\* a canvas handle that returns a data URL whatever the context
CanvasExportPNGUnchecked(env) == "url"

\* StarCanvas exportPNG: "" without a 2D context, else the data URL
CanvasExportPNG(env) == IF ~env.context THEN "" ELSE "url"

\* StarSvg exportPNG: the rejected load is caught and gives "", a missing
\* context gives "", else the data URL
SvgExportPNG(env) ==
    IF ~env.loads THEN ""
    ELSE IF ~env.context THEN ""
    ELSE "url"

\* Export PNG on the SVG renderer, after the await: if (!url) return alert(...)
PngAnswer(url) ==
    IF url = "" THEN Alert("Failed to generate PNG from SVG.") ELSE Download("png")

\* Export Upscaled, after the await: if (!url) return
UpscaledAnswer(url) == IF url = "" THEN Quiet ELSE Download("upscaled")

\* an exportUpscaled without its finally block
AfterUpscaledNoFinally(s) == s

\* the finally block of exportUpscaled: setExporting(false)
AfterUpscaled(s) == [ s EXCEPT !.exporting = FALSE ]

SetExportSizePreset(v) ==
    UserOp("SetExportSizePreset", [Cur EXCEPT !.exportSizePreset = v], Quiet, file, inflight)

\* Export PNG: the canvas is read at once, the SVG renderer answers later
exportPNG ==
    IF renderMode = "canvas"
    THEN UserOp("exportPNG", Cur, Download("png"), file, inflight)
    ELSE UserOp("exportPNG", Cur, Quiet, file, Append(inflight, "png"))

\* Export Upscaled: returns at once while exporting; the canvas handle answers
\* in the same turn, the SVG handle later
exportUpscaled ==
    IF exporting
    THEN UserOp("exportUpscaled", Cur, Quiet, file, inflight)
    ELSE IF renderMode = "canvas"
    THEN \E env \in { e \in ExportEnvs : e.loads } :
           UserOp("exportUpscaled", AfterUpscaled(Cur),
                  Answered(UpscaledAnswer(CanvasExportPNG(env)), env, CanvasExportPNG(env)),
                  file, inflight)
    ELSE UserOp("exportUpscaled", [Cur EXCEPT !.exporting = TRUE], Quiet, file,
                Append(inflight, "upscaled"))

\* the promise of pending export k settles, the SVG renderer having run
\* under env
ExportSettles(k, env) ==
    /\ mounted
    /\ k \in DOMAIN inflight
    /\ ops' = ops
    /\ budget' = budget
    /\ IF inflight[k] = "png"
       THEN Commit("exportPNG", Cur,
                   Answered(PngAnswer(SvgExportPNG(env)), env, SvgExportPNG(env)),
                   file, RemoveAt(inflight, k - 1))
       ELSE Commit("exportUpscaled", AfterUpscaled(Cur),
                   Answered(UpscaledAnswer(SvgExportPNG(env)), env, SvgExportPNG(env)),
                   file, RemoveAt(inflight, k - 1))

(***************************************************************************)
(* JSON export and import                                                  *)
(*                                                                         *)
(* A document is what JSON.parse gives: kind is "invalid" for text that    *)
(* fails to parse, "null" for a falsy value, "object" otherwise.  A field  *)
(* that is absent, or not of the type the import tests for, is None; an    *)
(* array entry that is null is None.                                       *)
(***************************************************************************)
\* rings as written by JSON.stringify: every field of the object
RingsDoc(r) ==
    [ enabled |-> Some(r.enabled), gap |-> Some(r.gap), width |-> Some(r.width),
      color |-> Some(r.color), opacity |-> Some(r.opacity),
      flatten |-> Some(r.flatten), angleDeg |-> Some(r.angleDeg) ]

\* exportJSON: moonCount of planet p
ExportMoonCount(p) ==
    IF showMoons /\ moonMaxSize >= moonMinSize
          /\ (IF IsSome(p.moons) THEN Val(p.moons) ELSE 0) > 0
    THEN (IF IsSome(p.moons) THEN Val(p.moons) ELSE 0)
    ELSE 0

\* an export that places the moon mOrbit away from the planet's centre,
\* without the planet's size
ExportMoonWithoutSize(w, p, m) ==
    [ angle    |-> TurnOf(w[3 * m + 1]),
      orbit    |-> moonOrbitMin * Unit
                   + MulRand(w[3 * m + 2], Max(0, moonOrbitMax - moonOrbitMin) * Unit),
      size     |-> moonMinSize * Unit
                   + MulRand(w[3 * m + 3], (moonMaxSize - moonMinSize) * Unit),
      position |-> [ around |-> Polar(p.angle, p.orbitRadius),
                     at     |-> Polar(TurnOf(w[3 * m + 1]),
                                      moonOrbitMin * Unit
                                        + MulRand(w[3 * m + 2],
                                                  Max(0, moonOrbitMax - moonOrbitMin) * Unit)) ] ]

\* exportJSON: moon m (from 0) of planet p off the values w of its stream:
\* { angle: ma, orbit: mOrbit, size: mSize, position }, the position being
\* p.size + mOrbit away at angle ma from the planet, itself placed around
\* cx = cy = 0
ExportMoon(w, p, m) ==
    [ angle    |-> TurnOf(w[3 * m + 1]),
      orbit    |-> moonOrbitMin * Unit
                   + MulRand(w[3 * m + 2], Max(0, moonOrbitMax - moonOrbitMin) * Unit),
      size     |-> moonMinSize * Unit
                   + MulRand(w[3 * m + 3], (moonMaxSize - moonMinSize) * Unit),
      position |-> [ around |-> Polar(p.angle, p.orbitRadius),
                     at     |-> Polar(TurnOf(w[3 * m + 1]),
                                      p.size + (moonOrbitMin * Unit
                                        + MulRand(w[3 * m + 2],
                                                  Max(0, moonOrbitMax - moonOrbitMin) * Unit))) ] ]

\* the moons array of planet p
ExportMoons(w, p) == [ m \in 1 .. ExportMoonCount(p) |-> ExportMoon(w, p, m - 1) ]

\* system.planets.push({ ... }) for the planet p, w the values of its moon
\* stream
PlanetDoc(w, p) ==
    [ orbitRadius |-> p.orbitRadius,
      size        |-> Some(p.size),
      angle       |-> p.angle,
      color       |-> Some(p.color),
      name        |-> Some(p.name),
      moonsCount  |-> p.moons,
      rings       |-> IF IsSome(p.rings) THEN Some(RingsDoc(Val(p.rings))) ELSE None,
      position    |-> Polar(p.angle, p.orbitRadius),
      moons       |-> ExportMoons(w, p),
      showLabel   |-> Some(p.showLabel # Some(FALSE)) ]

\* an export of the stations that leaves customIconDataUrl out
StationDocWithoutIcon(st) ==
    [ id |-> st.id, name |-> st.name, radius |-> st.radius, angle |-> st.angle,
      iconType |-> st.iconType, color |-> st.color, size |-> st.size,
      customIconDataUrl |-> None,
      showLabel |-> Some(st.showLabel # Some(FALSE)) ]

\* stations.map(s => ({ id: s.id, ..., showLabel: s.showLabel !== false }));
\* JSON.stringify leaves an undefined customIconDataUrl out
StationDoc(st) ==
    [ id |-> st.id, name |-> st.name, radius |-> st.radius, angle |-> st.angle,
      iconType |-> st.iconType, color |-> st.color, size |-> st.size,
      customIconDataUrl |-> st.customIconDataUrl,
      showLabel |-> Some(st.showLabel # Some(FALSE)) ]

\* st.stations.map((s) => ({ ...s, showLabel: s.showLabel !== false }))
ImportStation(sd) == [ sd EXCEPT !.showLabel = Some(sd.showLabel # Some(FALSE)) ]

\* the system object exportJSON serializes
ExportDoc ==
    [ kind |-> "object",
      seed |-> Some(seed),
      settings |-> Some([ labelSize |-> Some(labelSize),
                          labelColor |-> Some(labelColor),
                          showLabelBackground |-> Some(showLabelBackground),
                          belts |-> Some(belts),
                          stations |-> Some([ k \in 1 .. Len(stations) |->
                                                Some(StationDoc(stations[k])) ]) ]),
      planets |-> Some([ k \in 1 .. Len(planets) |->
                           Some(PlanetDoc(moonDrawsOf[seed][k - 1], planets[k])) ]) ]

exportJSON == UserOp("exportJSON", Cur, Download("json"), Some(ExportDoc), inflight)

\* the rings object an imported planet gets: each field coerced, with the
\* import's defaults for missing ones
ImportRings(r) ==
    [ enabled  |-> IsSome(r.enabled) /\ Val(r.enabled),
      gap      |-> Val(Coalesce(r.gap, Some(2 * Unit))),
      width    |-> Val(Coalesce(r.width, Some(10 * Unit))),
      color    |-> Val(Coalesce(r.color, Some("#c9b18b"))),
      opacity  |-> Val(Coalesce(r.opacity, Some(550))),
      flatten  |-> Val(Coalesce(r.flatten, Some(600))),
      angleDeg |-> Val(Coalesce(r.angleDeg, Some(45))) ]

\* overrides[idx] for the document's planet p
ImportOverride(p) ==
    [ size      |-> p.size,
      color     |-> p.color,
      moons     |-> p.moonsCount,
      showLabel |-> Some(p.showLabel # Some(FALSE)),
      rings     |-> IF IsSome(p.rings) THEN Some(ImportRings(Val(p.rings))) ELSE None,
      name      |-> None ]

\* if (p?.name): the entry is an object with a non-empty name
HasName(item) == IsSome(item) /\ IsSome(Val(item).name) /\ Val(Val(item).name) # ""

\* names: the truthy names of the document, by index
ImportNames(items) ==
    [ idx \in { k - 1 : k \in { k \in DOMAIN items : HasName(items[k]) } } |->
        Val(Val(items[idx + 1]).name) ]

\* a planets step that merges the document into the overrides and names held
\* before, instead of replacing them
ImportPlanetsMerging(s, doc) ==
    IF ~IsSome(doc.planets) THEN [ state |-> s, threw |-> FALSE ]
    ELSE LET items == Val(doc.planets)
             names == ImportNames(items)
         IN  IF \E k \in DOMAIN items : ~IsSome(items[k])
             THEN [ state |-> [ s EXCEPT !.numPlanets = Len(items) ], threw |-> TRUE ]
             ELSE
             [ state |-> [ s EXCEPT
                             !.numPlanets = Len(items),
                             !.planetOverrides =
                                 [ k \in DOMAIN items |->
                                     MergeOverride(OverrideAt(s.planetOverrides, k - 1),
                                                   ImportOverride(Val(items[k]))) ],
                             !.customNames =
                                 [ k \in DOMAIN names \cup DOMAIN s.customNames |->
                                     IF k \in DOMAIN names THEN names[k]
                                     ELSE s.customNames[k] ] ],
               threw |-> FALSE ]

\* the planets step of the import; reading p.size of a null entry throws after
\* setNumPlanets has been called
ImportPlanets(s, doc) ==
    IF ~IsSome(doc.planets) THEN [ state |-> s, threw |-> FALSE ]
    ELSE LET items == Val(doc.planets)
             s1    == [ s EXCEPT !.numPlanets = Len(items) ]
         IN  IF \E k \in DOMAIN items : ~IsSome(items[k])
             THEN [ state |-> s1, threw |-> TRUE ]
             ELSE [ state |-> [ s1 EXCEPT
                                  !.planetOverrides =
                                      [ k \in DOMAIN items |-> ImportOverride(Val(items[k])) ],
                                  !.customNames = ImportNames(items) ],
                    threw |-> FALSE ]

\* the settings step of the import; reading s.showLabel of a null station
\* throws after the label settings and the belts have been set
ImportSettings(s, doc) ==
    IF ~IsSome(doc.settings) THEN [ state |-> s, threw |-> FALSE ]
    ELSE LET st == Val(doc.settings)
             s1 == [ s EXCEPT
                       !.labelSize = Val(Coalesce(st.labelSize, Some(s.labelSize))),
                       !.labelColor = Val(Coalesce(st.labelColor, Some(s.labelColor))),
                       !.showLabelBackground =
                           Val(Coalesce(st.showLabelBackground, Some(s.showLabelBackground))),
                       !.belts = Val(Coalesce(st.belts, Some(s.belts))) ]
         IN  IF ~IsSome(st.stations) THEN [ state |-> s1, threw |-> FALSE ]
             ELSE IF \E k \in DOMAIN Val(st.stations) : ~IsSome(Val(st.stations)[k])
             THEN [ state |-> s1, threw |-> TRUE ]
             ELSE [ state |-> [ s1 EXCEPT !.stations =
                                  [ k \in DOMAIN Val(st.stations) |->
                                      ImportStation(Val(Val(st.stations)[k])) ] ],
                    threw |-> FALSE ]

\* an import that also drops the pending placement
ImportResultClearingPlacement(s, doc) ==
    IF doc.kind = "invalid" THEN [ state |-> s, threw |-> TRUE ]
    ELSE IF doc.kind = "null" THEN [ state |-> s, threw |-> FALSE ]
    ELSE LET s1 == [ s EXCEPT !.seed = Val(Coalesce(doc.seed, Some(s.seed))),
                              !.placingStationIndex = None ]
             r2 == ImportPlanets(s1, doc)
         IN  IF r2.threw THEN r2 ELSE ImportSettings(r2.state, doc)

\* reader.onload: the state updates made and whether the catch block ran
ImportResult(s, doc) ==
    IF doc.kind = "invalid" THEN [ state |-> s, threw |-> TRUE ]
    ELSE IF doc.kind = "null" THEN [ state |-> s, threw |-> FALSE ]
    ELSE LET s1 == [ s EXCEPT !.seed = Val(Coalesce(doc.seed, Some(s.seed))) ]
             r2 == ImportPlanets(s1, doc)
         IN  IF r2.threw THEN r2 ELSE ImportSettings(r2.state, doc)

\* the user picks a file holding doc and the reader loads it
onImportFileChange(doc) ==
    LET r == ImportResult(Cur, doc)
    IN  UserOp("onImportFileChange", r.state,
               IF r.threw THEN Alert("Invalid JSON file.") ELSE Quiet,
               Some(doc), inflight)

\* hand-written documents offered to the import besides the user's own export
EmptyPlanetDoc ==
    [ orbitRadius |-> 0, size |-> None, angle |-> 0, color |-> None, name |-> None,
      moonsCount |-> None, rings |-> None, position |-> Polar(0, 0), moons |-> << >>,
      showLabel |-> None ]

NoSettings ==
    [ labelSize |-> None, labelColor |-> None, showLabelBackground |-> None,
      belts |-> None, stations |-> None ]

\* text that is not JSON
InvalidDoc == [ kind |-> "invalid", seed |-> None, settings |-> None, planets |-> None ]

\* the text "null"
NullDoc == [ kind |-> "null", seed |-> None, settings |-> None, planets |-> None ]

\* {"seed": 42, "planets": []}
EmptySystemDoc ==
    [ kind |-> "object", seed |-> Some(DocSeed), settings |-> None, planets |-> Some(<< >>) ]

\* {"seed": 42, "planets": [null]}
NullPlanetDoc ==
    [ kind |-> "object", seed |-> Some(DocSeed), settings |-> None,
      planets |-> Some(<< None >>) ]

\* {"seed": 42, "planets": [{}, ..., {}]} with DocPlanets entries
CrowdedDoc ==
    [ kind |-> "object", seed |-> Some(DocSeed), settings |-> None,
      planets |-> Some([ k \in 1 .. DocPlanets |-> Some(EmptyPlanetDoc) ]) ]

\* {"settings": {"labelSize": 20, "belts": [], "stations": [null]}}
NullStationDoc ==
    [ kind |-> "object", seed |-> None, planets |-> None,
      settings |-> Some([ NoSettings EXCEPT !.labelSize = Some(20),
                                            !.belts = Some(<< >>),
                                            !.stations = Some(<< None >>) ]) ]

\* three planets and anchored belts on the gaps 2 (which three planets do not
\* have) and 0, then a free belt
BeltsDoc ==
    [ kind |-> "object", seed |-> None,
      planets |-> Some([ k \in 1 .. 3 |->
                           Some([ EmptyPlanetDoc EXCEPT !.name = Some("Rigel") ]) ]),
      settings |-> Some([ NoSettings EXCEPT !.belts =
          Some(<< [ type |-> "anchored", gapIndex |-> Some(2), width |-> 80 * Unit,
                    density |-> 500 ],
                  [ type |-> "anchored", gapIndex |-> Some(0), width |-> 200 * Unit,
                    density |-> 2 ],
                  [ type |-> "anchored", gapIndex |-> Some(1), width |-> 20 * Unit,
                    density |-> 2 ] >>) ]) ]

\* the numbers of the document written past the ranges of the controls
DocSize == 100

DocWidth == 500

\* ring numbers past the ranges of the ring controls
OutOfRangeRings ==
    [ enabled |-> Some(TRUE), gap |-> Some(-5 * Unit), width |-> Some(0),
      color |-> None, opacity |-> Some(2 * Milli), flatten |-> Some(50),
      angleDeg |-> None ]

\* {"planets": [{"size": 100, "moonsCount": 12,
\*               "rings": {"enabled": true, "gap": -5, "width": 0,
\*                         "opacity": 2, "flatten": 0.05}}],
\*  "settings": {"belts": [{"type": "free", "width": 500, "density": 0.002}],
\*               "stations": [{..., "size": 100}]}}
OutOfRangeDoc ==
    [ kind |-> "object", seed |-> None,
      planets |-> Some(<< Some([ EmptyPlanetDoc EXCEPT !.size = Some(DocSize * Unit),
                                                       !.moonsCount = Some(DocMoons),
                                                       !.rings = Some(OutOfRangeRings) ]) >>),
      settings |-> Some([ NoSettings EXCEPT
          !.belts = Some(<< [ type |-> "free", gapIndex |-> None,
                              width |-> DocWidth * Unit, density |-> 2 ] >>),
          !.stations = Some(<< Some([ id |-> "s1", name |-> "Hub",
                                      radius |-> 150 * Unit, angle |-> 0,
                                      iconType |-> "square", color |-> "#FFD54F",
                                      size |-> DocSize * Unit,
                                      customIconDataUrl |-> None,
                                      showLabel |-> None ]) >>) ]) ]

CraftedDocs ==
    << InvalidDoc, NullDoc, EmptySystemDoc, NullPlanetDoc, CrowdedDoc,
       NullStationDoc, BeltsDoc, OutOfRangeDoc >>

\* the files the user can pick: a hand-written one, or the export held
ImportChoices ==
    { CraftedDocs[k] : k \in DOMAIN CraftedDocs }
    \cup (IF IsSome(file) THEN { Val(file) } ELSE { })

\* the document the user holds is one the editor exported, not a hand-written one
HoldsExport ==
    /\ IsSome(file)
    /\ \A k \in DOMAIN CraftedDocs : CraftedDocs[k] # Val(file)

Next ==
    \/ Mount
    \/ \E v \in NumInputs : handleNumChange(v)
    \/ \E v \in TypedSeeds : SetSeed(v)
    \/ \E r \in RandomSeeds : regenerate(r)
    \/ \E m \in { "canvas", "svg" } : SetRenderMode(m)
    \/ \E index \in 0 .. Min(MaxEditIndex, Len(planets)) - 1 :
         \E updates \in RowUpdates(planets[index + 1]) : onChange(index, updates)
    \/ \E v \in LabelSizeInputs : SetLabelSize(v)
    \/ \E v \in LabelColorInputs : SetLabelColor(v)
    \/ \E v \in BOOLEAN : SetShowLabelBackground(v)
    \/ \E v \in LabelPositions : SetLabelPosition(v)
    \/ \E v \in BOOLEAN : SetFullBleed(v)
    \/ BeltAdd
    \/ \E idx \in 0 .. Len(belts) - 1 : BeltRemove(idx)
    \/ \E idx \in 0 .. Len(belts) - 1 :
         \E b \in BeltUpdates(belts[idx + 1], Len(planets)) : BeltChange(idx, b)
    \/ StationAdd
    \/ \E idx \in 0 .. Len(stations) - 1 : StationRemove(idx)
    \/ \E idx \in 0 .. Len(stations) - 1 :
         \E st \in StationUpdates(stations[idx + 1]) : StationChange(idx, st)
    \/ \E idx \in 0 .. Len(stations) - 1 : onPlaceRequest(idx)
    \/ \E at \in ClickInputs : handleClick(at)
    \/ \E v \in ExportPresets : SetExportSizePreset(v)
    \/ exportPNG
    \/ exportJSON
    \/ \E doc \in ImportChoices : onImportFileChange(doc)
    \/ exportUpscaled
    \/ \E k \in DOMAIN inflight : \E env \in ExportEnvs : ExportSettles(k, env)

Spec == Init /\ [][Next]_vars

(***************************************************************************)
(* Placing stations: the station controls, the click on the canvas, the    *)
(* export and the import of the exported file, over more operations        *)
(***************************************************************************)
\* the user operations explored in a behaviour that places stations
MaxPlacingOps == 6

PlacingInit == Constructed /\ budget = MaxPlacingOps

PlacingNext ==
    \/ Mount
    \/ StationAdd
    \/ \E idx \in 0 .. Len(stations) - 1 :
         \E st \in StationUpdates(stations[idx + 1]) : StationChange(idx, st)
    \/ \E idx \in 0 .. Len(stations) - 1 : onPlaceRequest(idx)
    \/ \E at \in ClickInputs : handleClick(at)
    \/ exportJSON
    \/ \E doc \in { d \in ImportChoices : HoldsExport /\ d = Val(file) } :
         onImportFileChange(doc)

PlacingSpec == PlacingInit /\ [][PlacingNext]_vars

(***************************************************************************)
(* Pending exports settle: the promise of handle.exportPNG resolves once   *)
(* the image load has fired onload or onerror                              *)
(***************************************************************************)
Settling == \E k \in DOMAIN inflight : \E env \in ExportEnvs : ExportSettles(k, env)

FairSpec == Spec /\ WF_vars(Settling)

(***************************************************************************)
(* The image loads of StarCanvas. The behaviours above take the outcome of *)
(* img.complete as a choice made pass by pass; the ones below follow each  *)
(* Image a pass creates, with the seed, planets, belts and stations fixed: *)
(* a StarCanvas constructed over stations that hold custom images (as when *)
(* the render mode returns to canvas), its effect, its ResizeObserver, the *)
(* load and error events and the animation frames. The browser keeps a     *)
(* loaded URL in its list of available images, and an Image whose src is   *)
(* in the list is complete as soon as src is set.                          *)
(***************************************************************************)
\* events from outside explored in such a behaviour: resizes and evictions
MaxRedrawOps == 1

\* the canvas passes a behaviour is followed for
MaxPasses == 18

RedrawIcons == IconInputs \cup { "data:image/png;base64,BB" }

\* a station row as "Add station" makes it, with the image chosen for it
IconStation(i, icon) == [ defaultStation(1700, i) EXCEPT !.customIconDataUrl = icon ]

\* the station lists the canvas is constructed over
RedrawStations ==
    { << IconStation(0, Some(u)) >> : u \in RedrawIcons }
    \cup { << IconStation(0, a), IconStation(1, Some(u)) >> :
             a \in { None } \cup { Some(v) : v \in RedrawIcons }, u \in RedrawIcons }

\* an Image that is never complete when its src has just been set
IsCompleteNever(url, avail) == FALSE

\* img.complete right after img.src = url
IsComplete(url, avail) == url \in avail

\* the stations whose image is complete when the pass reaches them
CompleteNow(stationsv, avail) ==
    { k \in CustomIcons(stationsv) :
        IsComplete(Val(stationsv[k].customIconDataUrl), avail) }

\* the Images of one pass that get an onload handler, from station k on
RECURSIVE WaitingFrom(_, _, _)
WaitingFrom(stationsv, complete, k) ==
    IF k > Len(stationsv) THEN EmptyBag
    ELSE (IF HasCustomIcon(stationsv[k]) /\ k \notin complete
          THEN SetToBag({ Val(stationsv[k].customIconDataUrl) }) ELSE EmptyBag)
         (+) WaitingFrom(stationsv, complete, k + 1)

RedrawInit ==
    /\ mounted = TRUE
    /\ numPlanets = InitNumPlanets
    /\ seed \in RandomSeeds
    /\ planetOverrides = [ k \in 1 .. InitNumPlanets |-> EmptyOverride ]
    /\ customNames = << >>
    /\ labelSize = 12
    /\ labelColor = "#ffffff"
    /\ showLabelBackground = FALSE
    /\ labelPosition = "top-left"
    /\ fullBleed = FALSE
    /\ belts = << >>
    /\ stations \in RedrawStations
    /\ placingStationIndex = None
    /\ renderMode = "canvas"
    /\ exportSizePreset = "1280x720"
    /\ exporting = FALSE
    /\ basePlanets = basePlanetsOf[seed][InitNumPlanets]
    /\ defaultNames = defaultNamesOf[seed][InitNumPlanets]
    /\ planets = ComposePlanets(basePlanets, planetOverrides, customNames, defaultNames)
    /\ frame = Frame("canvas", { }, << >>, << >>, << >>, << >>, << >>, << >>, << >>, << >>)
    /\ loading = EmptyBag
    /\ available = { }
    /\ raf = 0
    /\ passes = 0
    /\ file = None
    /\ inflight = << >>
    /\ out = Shown("SetRenderMode", Quiet)
    /\ ops = 0
    /\ budget = MaxRedrawOps

\* what no step of the canvas changes: the page's state
pageVars == << mounted, editorVars, basePlanets, defaultNames, planets, file,
               inflight, out, budget >>

\* draw(): one pass of renderScene; trigger is what called it: the effect
\* after construction, the ResizeObserver, or an animation frame asked for
\* by an onload
draw(trigger) ==
    /\ passes < MaxPasses
    /\ CASE trigger = "effect" -> passes = 0 /\ raf' = raf /\ ops' = ops
         [] trigger = "resize" -> passes > 0 /\ ops < budget /\ raf' = raf /\ ops' = ops + 1
         [] trigger = "frame"  -> raf > 0 /\ raf' = raf - 1 /\ ops' = ops
    /\ \E complete \in { CompleteNow(stations, available) } :
         /\ frame' = Paint("canvas", seed, planets, belts, stations, complete)
         /\ loading' = loading (+) WaitingFrom(stations, complete, 1)
    /\ passes' = passes + 1
    /\ UNCHANGED << pageVars, available >>

\* img.onload of a waiting Image whose src is url: the URL is available from
\* now on and, the canvas being mounted, a draw is asked for
ImageLoads(url) ==
    /\ BagIn(url, loading)
    /\ available' = available \cup { url }
    /\ loading' = loading (-) SetToBag({ url })
    /\ raf' = raf + 1
    /\ UNCHANGED << pageVars, frame, passes, ops >>

\* the load of a waiting Image whose src is url fails: no handler is set
\* for the error
ImageFails(url) ==
    /\ BagIn(url, loading)
    /\ loading' = loading (-) SetToBag({ url })
    /\ UNCHANGED << pageVars, frame, available, raf, passes, ops >>

\* the browser drops url from its list of available images
Evicts(url) ==
    /\ ops < budget
    /\ ops' = ops + 1
    /\ available' = available \ { url }
    /\ UNCHANGED << pageVars, frame, loading, raf, passes >>

ImageSettles == \E url \in RedrawIcons : ImageLoads(url) \/ ImageFails(url)

AnimationFrame == draw("frame")

RedrawNext ==
    \/ \E trigger \in { "effect", "resize", "frame" } : draw(trigger)
    \/ \E url \in RedrawIcons : ImageLoads(url)
    \/ \E url \in RedrawIcons : ImageFails(url)
    \/ \E url \in available : Evicts(url)

RedrawSpec == RedrawInit /\ [][RedrawNext]_vars

\* every Image settles and every animation frame asked for runs
RedrawFairSpec == RedrawSpec /\ WF_vars(ImageSettles) /\ WF_vars(AnimationFrame)

(***************************************************************************)
(* Properties                                                              *)
(***************************************************************************)
\* C1 (determinism): whatever operations led to it, the scene the editor
\* holds is the one built from the current inputs alone: basePlanets and
\* defaultNames are the generator's output for (seed, numPlanets), planets is
\* their composition with the overrides and names, and the painted moons and
\* belts are those of (seed, planets, belts) in the mounted renderer; so two
\* builds from identical inputs agree.
C1_SceneIsFunctionOfInputs ==
    mounted =>
        /\ basePlanets = basePlanetsOf[seed][numPlanets]
        /\ defaultNames = defaultNamesOf[seed][Len(basePlanets)]
        /\ planets = ComposePlanets(basePlanets, planetOverrides, customNames, defaultNames)
        /\ frame = Paint(renderMode, seed, planets, belts, stations, frame.complete)

\* a scene with planets, a moon list and a belt, rebuilt after a seed change
C1_Witness ==
    /\ out.handler = "SetSeed"
    /\ Len(planets) = InitNumPlanets
    /\ \E k \in DOMAIN frame.moons : Len(frame.moons[k]) > 0
    /\ \E k \in DOMAIN frame.belts : Len(frame.belts[k].particles) > 0

\* C2 (override isolation): a step of the planet rows' onChange changes at
\* most one planet; every other planet keeps its orbitRadius, angle, moons
\* and rings (and its painted moon list), and belts and stations are unchanged.
C2_OverrideIsolation ==
    [][ out'.handler = "onChange" =>
          /\ belts' = belts
          /\ stations' = stations
          /\ Len(planets') = Len(planets)
          /\ \E i \in DOMAIN planets :
               \A j \in DOMAIN planets \ { i } :
                 /\ planets'[j] = planets[j]
                 /\ frame'.moons[j] = frame.moons[j] ]_vars

\* planet 0 has been recoloured among several planets, beside a belt
C2_Witness ==
    /\ out.handler = "onChange"
    /\ Len(planets) >= 2
    /\ planets[1].color = "#ff0000"
    /\ planets[1].color # basePlanets[1].color
    /\ Len(belts) > 0

\* C3: the first orbit radius lies in [75, 110] and each later one exceeds the
\* one before by at least 35 and less than 70, in the generated and in the
\* composed planets.
C3_OrbitsIncrease ==
    \A k \in DOMAIN basePlanets :
        LET before == IF k = 1 THEN minOrbit * Unit ELSE basePlanets[k - 1].orbitRadius
            gap    == basePlanets[k].orbitRadius - before
        IN  /\ gap >= orbitGapMin * Unit
            /\ gap < orbitGapMax * Unit
            /\ k = 1 => /\ basePlanets[k].orbitRadius >= 75 * Unit
                        /\ basePlanets[k].orbitRadius <= 110 * Unit
            /\ k > 1 => basePlanets[k].orbitRadius > basePlanets[k - 1].orbitRadius
            /\ planets[k].orbitRadius = basePlanets[k].orbitRadius

\* the largest system, generated from a typed seed
C3_Witness == mounted /\ seed \in TypedSeeds /\ Len(basePlanets) = MaxPlanets

\* C4: an import that fails (the alert is raised) changes nothing of the
\* editor's state.
C4_FailedImportChangesNothing ==
    [][ (out'.handler = "onImportFileChange" /\ out'.alert # "") =>
          UNCHANGED editorVars ]_vars

\* what the user sees of the scene: per planet the orbit, size, angle, color,
\* name, moon count and rings, and the belts and stations
SceneView ==
    [ seed |-> seed,
      planets |-> [ k \in DOMAIN planets |->
                      [ orbitRadius |-> planets[k].orbitRadius,
                        size |-> planets[k].size,
                        angle |-> planets[k].angle,
                        color |-> planets[k].color,
                        name |-> planets[k].name,
                        moons |-> planets[k].moons,
                        rings |-> planets[k].rings ] ],
      belts |-> belts,
      stations |-> [ k \in DOMAIN stations |-> StationDoc(stations[k]) ] ]

\* C5 (round trip): importing the export of the current state, with no edit
\* in between, leaves the scene as it was.
C5_RoundTrip ==
    [][ (out'.handler = "onImportFileChange" /\ file = Some(ExportDoc) /\ file' = file) =>
          SceneView' = SceneView ]_vars

\* the document read by the last import
Imported == Val(file)

\* C6: after an import that raised no alert, of a document with a numeric seed
\* and a planets array, the seed and the count are the document's, there is
\* one override per entry of the document with the document's fields and no
\* name field, and the custom names are exactly the document's non-empty names.
C6_ImportReplaces ==
    [][ ( /\ out'.handler = "onImportFileChange"
          /\ out'.alert = ""
          /\ Imported'.kind = "object"
          /\ IsSome(Imported'.seed)
          /\ IsSome(Imported'.planets) ) =>
          LET items == Val(Imported'.planets)
          IN  /\ seed' = Val(Imported'.seed)
              /\ numPlanets' = Len(items)
              /\ Len(planetOverrides') = Len(items)
              /\ \A k \in DOMAIN items :
                   /\ planetOverrides'[k].size = Val(items[k]).size
                   /\ planetOverrides'[k].color = Val(items[k]).color
                   /\ planetOverrides'[k].moons = Val(items[k]).moonsCount
                   /\ planetOverrides'[k].name = None
                   /\ IsSome(planetOverrides'[k].rings) = IsSome(Val(items[k]).rings)
              /\ DOMAIN customNames' = { k - 1 : k \in { k \in DOMAIN items : HasName(items[k]) } }
              /\ \A idx \in DOMAIN customNames' :
                   customNames'[idx] = Val(Val(items[idx + 1]).name)
              /\ (Imported' = EmptySystemDoc =>
                    numPlanets' = 0 /\ planetOverrides' = << >> /\ seed' = DocSeed) ]_vars

\* {"seed": 42, "planets": []} has been imported over an edited system
C6_Witness ==
    /\ out.handler = "onImportFileChange"
    /\ file = Some(EmptySystemDoc)
    /\ ops >= 2
    /\ numPlanets = 0
    /\ planetOverrides = << >>
    /\ seed = DocSeed

\* C7: the planet count is between 0 and 20.
C7_CountInRange == numPlanets \in 0 .. MaxPlanets

\* the planets on the two sides of gap k, when both exist
GapPlanets(belt) ==
    << PlanetAt(planets, Val(belt.gapIndex)), PlanetAt(planets, Val(belt.gapIndex) + 1) >>

\* an anchored belt whose two planets exist
HasGap(belt) ==
    IsAnchored(belt) /\ IsSome(GapPlanets(belt)[1]) /\ IsSome(GapPlanets(belt)[2])

\* edges inner = max(50, (a + b)/2 - width/2) and outer = inner + width, with
\* the centre on the mean of a and b (to the last unit) when inner is above 50
OnTheMean(drawing, a, b, width) ==
    /\ drawing.kind = "drawn"
    /\ drawing.inner = Max(50 * Unit, (a + b) \div 2 - width \div 2)
    /\ drawing.outer = drawing.inner + width
    /\ drawing.inner > 50 * Unit =>
         (a + b) - (2 * drawing.inner + width) \in { 0, 1 }

\* C8: an anchored belt whose two planets exist is painted, by the canvas and
\* by the SVG renderer, with inner = max(50, mean - width/2) and
\* outer = inner + width; orbits 100 and 160 with width 40 give 110 and 150.
C8_AnchoredBeltOnTheMean ==
    /\ \A k \in DOMAIN belts :
         HasGap(belts[k]) =>
           LET a == Val(GapPlanets(belts[k])[1]).orbitRadius
               b == Val(GapPlanets(belts[k])[2]).orbitRadius
           IN  /\ mounted => OnTheMean(frame.belts[k], a, b, belts[k].width)
               /\ OnTheMean(CanvasBelt(beltDrawsOf[seed][k - 1], planets, belts[k]), a, b, belts[k].width)
               /\ OnTheMean(SvgBelt(beltDrawsOf[seed][k - 1], planets, belts[k]), a, b, belts[k].width)
    /\ LET edges == AnchoredEdges(<< [ orbitRadius |-> 15 * Unit ],
                                     [ orbitRadius |-> 100 * Unit ],
                                     [ orbitRadius |-> 160 * Unit ] >>,
                                  [ type |-> "anchored", gapIndex |-> Some(1),
                                    width |-> 40 * Unit, density |-> 500 ])
       IN  edges.kind = "drawn" /\ edges.inner = 110 * Unit /\ edges.outer = 150 * Unit

\* anchored belts painted with and without the floor of 50
C8_Witness ==
    /\ mounted
    /\ \E k \in DOMAIN belts : HasGap(belts[k]) /\ frame.belts[k].inner > 50 * Unit
    /\ \E k \in DOMAIN belts : HasGap(belts[k]) /\ frame.belts[k].inner = 50 * Unit

\* an anchored belt whose gap has lost a planet
Dangling(belt) == IsAnchored(belt) /\ ~HasGap(belt)

\* C9: an anchored belt whose gap has lost a planet is skipped by both
\* renderers: it gets no particles, nothing throws, every other belt is drawn
\* and every layer of the mounted renderer is painted; a change of the count
\* leaves the belt list as it was.
C9_DanglingBeltSkipped ==
    /\ [](\A k \in DOMAIN belts :
            /\ Dangling(belts[k]) =>
                 /\ CanvasBelt(beltDrawsOf[seed][k - 1], planets, belts[k]).kind = "skipped"
                 /\ SvgBelt(beltDrawsOf[seed][k - 1], planets, belts[k]).kind = "skipped"
                 /\ mounted => /\ frame.belts[k].kind = "skipped"
                               /\ frame.belts[k].count = 0
                               /\ frame.belts[k].particles = << >>
            /\ (mounted /\ ~Dangling(belts[k])) => frame.belts[k].kind = "drawn")
    /\ [](mounted => /\ Len(frame.belts) = Len(belts)
                     /\ frame.layers = IF renderMode = "canvas" THEN canvasLayers
                                       ELSE svgLayers)
    /\ [][ out'.handler = "handleNumChange" => belts' = belts ]_vars

\* the count was reduced under an anchored belt, beside a belt still drawn
C9_Witness ==
    /\ out.handler = "handleNumChange"
    /\ numPlanets = 2
    /\ \E k \in DOMAIN belts : Dangling(belts[k]) /\ frame.belts[k].kind = "skipped"
    /\ \E k \in DOMAIN belts : frame.belts[k].kind = "drawn"

\* C10: at most one asynchronous export is in flight.
C10_OneExportInFlight == Len(inflight) <= 1


\* moon em of an exported planet is the moon rm a renderer computes around
\* the planet drawn as mark: same angle, same orbit circle, same size, and
\* the same position once the surface centre is taken off
SameMoon(em, rm, mark) ==
    /\ em.angle = rm.ma
    /\ mark.size + em.orbit = rm.orbit
    /\ em.size = rm.size
    /\ em.position.around = mark.centre
    /\ em.position.at = Polar(rm.ma, rm.orbit)

\* the moon list em of an exported planet is the list rms of a renderer
SameMoons(ems, rms, mark) ==
    /\ Len(ems) = Len(rms)
    /\ \A m \in DOMAIN ems : SameMoon(ems[m], rms[m], mark)

SameStation(st, sd) ==
    /\ st.radius = sd.radius
    /\ st.angle = sd.angle
    /\ st.iconType = sd.iconType
    /\ st.color = sd.color
    /\ st.size = sd.size
    /\ st.customIconDataUrl = sd.customIconDataUrl
    /\ (st.showLabel # Some(FALSE)) = (sd.showLabel # Some(FALSE))

\* mark rm on the screen is station st where it was placed, in its color,
\* with its icon unless the image is not there yet
DrawnAsPlaced(rm, st) ==
    /\ rm.centre = Polar(st.angle, st.radius)
    /\ rm.color = st.color
    /\ rm.size = st.size
    /\ rm.icon \in { "omitted", IF HasCustomIcon(st) THEN "image" ELSE st.iconType }

\* C12 (stations survive the round trip): the exported document describes
\* every station as it is (radius, angle, iconType, color, size, custom icon
\* data, label visibility), and the import of an exported document leaves the
\* editor with exactly the stations the document describes, drawn at the
\* position, in the color and with the icon of the document.
C12_StationRoundTrip ==
    (mounted /\ HoldsExport /\ out.handler \in { "exportJSON", "onImportFileChange" }) =>
        /\ Len(stations) = Len(Val(Val(Val(file).settings).stations))
        /\ \A k \in DOMAIN stations :
             /\ SameStation(stations[k], Val(Val(Val(Val(file).settings).stations)[k]))
             /\ DrawnAsPlaced(frame.stations[k],
                              Val(Val(Val(Val(file).settings).stations)[k]))
             /\ (Val(Val(Val(Val(file).settings).stations)[k]).showLabel # Some(FALSE))
                  => \E j \in DOMAIN frame.labels : frame.labels[j] = stations[k].name

\* a station given a custom icon and placed by a click on the canvas has
\* been exported, and the exported file imported
C12_Witness ==
    /\ mounted /\ HoldsExport /\ out.handler = "onImportFileChange"
    /\ \E k \in DOMAIN stations :
         /\ stations[k].radius = 200 * Unit
         /\ stations[k].angle = 16384
         /\ HasCustomIcon(stations[k])

\* particle cp of the canvas and particle sp of the SVG markup are one
\* square: same position, and the side the canvas fills (a length) is the
\* side the markup writes (in hundredths)
SameParticle(cp, sp) ==
    /\ cp.ang = sp.ang
    /\ cp.rr = sp.rr
    /\ cp.s * 100 = sp.s * Unit

\* belt cb of the canvas and belt sb of the SVG markup: same particles
SameBelt(cb, sb) ==
    /\ cb.kind = sb.kind
    /\ cb.count = sb.count
    /\ Len(cb.particles) = Len(sb.particles)
    /\ \A j \in DOMAIN cb.particles : SameParticle(cb.particles[j], sb.particles[j])

\* the canvas pass c and the SVG render f place every element alike
SameGeometry(c, f) ==
    /\ c.planets = f.planets
    /\ c.moons = f.moons
    /\ Len(c.belts) = Len(f.belts)
    /\ \A k \in DOMAIN c.belts : SameBelt(c.belts[k], f.belts[k])
    /\ Len(c.stations) = Len(f.stations)
    /\ \A k \in DOMAIN c.stations : c.stations[k].centre = f.stations[k].centre

\* C13 (the two renderers agree): what StarSvg shows is, element by element,
\* what StarCanvas draws from the same seed, planets, belts and stations:
\* planet centres and sizes, ring ellipses (mid, mid * flatten, angleDeg),
\* moon orbits and bodies, belt particles (count, position, size) and
\* station centres are identical.
C13_RenderersAgree ==
    (mounted /\ frame.mode = "svg") =>
        SameGeometry(CanvasPass(moonDrawsOf[seed], beltDrawsOf[seed], planets, belts,
                                stations, { }),
                     frame)

\* C14 (an export that cannot make an image fails cleanly): when the
\* renderer's exportPNG ran without a 2D context, or the SVG document did not
\* load as an image, the call returned the empty string and the request
\* produced no download.
C14_FailedExportReturnsFailure ==
    (IsSome(out.env) /\ (~Val(out.env).context \/ ~Val(out.env).loads)) =>
        /\ out.returned = Some("")
        /\ out.download = ""

\* an upscaled export of the canvas has run without a 2D context
C14_Witness ==
    /\ out.handler = "exportUpscaled"
    /\ renderMode = "canvas"
    /\ IsSome(out.env) /\ ~Val(out.env).context
    /\ out.returned = Some("")

\* C15 (failed exports are reported): whenever Export PNG or Export Upscaled
\* ends with an empty result from the renderer, the user is alerted.
C15_FailedExportIsReported ==
    (out.handler \in { "exportPNG", "exportUpscaled" } /\ out.returned = Some("")) =>
        out.alert # ""

\* the scene an export must leave alone
Scene == << seed, planets, belts, stations >>

IconOf(st) ==
    IF HasCustomIcon(st) THEN "image"
    ELSE IF st.iconType \in { "diamond", "triangle", "square", "cross" } THEN st.iconType
    ELSE "satellite"

\* the stations of the canvas pass on the screen whose custom image was not
\* complete when the pass reached them
MissingImages == CustomIcons(stations) \ frame.complete

\* C17 (a missing station image costs only its icon): in a canvas pass, a
\* station whose custom image is not available has its icon left out and
\* nothing else: every other station is drawn with its icon at its place,
\* every label that is switched on is drawn, the pass reaches the labels and
\* the HUD, and nothing is thrown.
C17_MissingImageOmitsOnlyItsIcon ==
    (mounted /\ frame.mode = "canvas") =>
        /\ Len(frame.stations) = Len(stations)
        /\ \A k \in DOMAIN stations :
             /\ frame.stations[k].centre = Polar(stations[k].angle, stations[k].radius)
             /\ frame.stations[k].icon =
                  (IF k \in MissingImages THEN "omitted" ELSE IconOf(stations[k]))
        /\ frame.labels = LabelsFrom(planets, 1) \o LabelsFrom(stations, 1)
        /\ frame.layers = canvasLayers

\* two stations on the canvas, one with a custom image that is not complete
\* and left out, the other drawn as its diamond, labels on
C17_Witness ==
    /\ mounted /\ frame.mode = "canvas"
    /\ \E k \in MissingImages : \E j \in DOMAIN stations :
         /\ frame.stations[k].icon = "omitted"
         /\ frame.stations[j].icon = "diamond"
         /\ Len(frame.labels) = Len(planets) + 2

C19_ExplicitNameWins ==
    /\ [](mounted =>
            \A k \in DOMAIN planets :
                planets[k].name =
                    (IF k - 1 \in DOMAIN customNames THEN customNames[k - 1]
                     ELSE IF IsSome(OverrideAt(planetOverrides, k - 1).name)
                          THEN Val(OverrideAt(planetOverrides, k - 1).name)
                     ELSE IF k \in DOMAIN defaultNames THEN defaultNames[k]
                     ELSE "Planet " \o ToString(k)))
    /\ [][ ((\E v \in TypedSeeds : SetSeed(v)) \/ (\E r \in RandomSeeds : regenerate(r))) =>
             \A k \in DOMAIN planets' :
                 (k - 1 \in DOMAIN customNames) => planets'[k].name = customNames[k - 1] ]_vars

\* planet 1 was named "Vega" by hand, the seed was changed to one whose
\* default name for it is another, and it is still shown as "Vega"
C19_Witness ==
    /\ mounted
    /\ out.handler \in { "SetSeed", "regenerate" }
    /\ 0 \in DOMAIN customNames
    /\ customNames[0] = "Vega"
    /\ planets[1].name = "Vega"
    /\ defaultNames[1] # "Vega"

\* v is a length between lo and hi
Within(v, lo, hi) == lo * Unit <= v /\ v <= hi * Unit

\* C20 (configuration is clamped): whatever edits and imports led to it, the
\* state holds belt widths in [10, 200], planet size overrides in [2, 24],
\* moon-count overrides in [0, 10] and station sizes in [4, 24].
C20_ConfigurationClamped ==
    /\ \A k \in DOMAIN belts : Within(belts[k].width, 10, 200)
    /\ \A k \in DOMAIN planetOverrides :
         /\ IsSome(planetOverrides[k].size) => Within(Val(planetOverrides[k].size), 2, 24)
         /\ IsSome(planetOverrides[k].moons) =>
              (0 <= Val(planetOverrides[k].moons) /\ Val(planetOverrides[k].moons) <= 10)
    /\ \A k \in DOMAIN stations : Within(stations[k].size, 4, 24)

(***************************************************************************)
(* Painting order                                                          *)
(***************************************************************************)
\* the place of layer a in the order layers
PlaceOf(layers, a) == CHOOSE i \in DOMAIN layers : layers[i] = a

Painted(layers) == { layers[i] : i \in DOMAIN layers }

\* the layers of the frame f that hold at least one element
Occupied(f) ==
    { a \in Painted(f.layers) :
        /\ a = "belts" => \E k \in DOMAIN f.belts : f.belts[k].count > 0
        /\ a \in { "orbits", "planets" } => Len(f.planets) > 0
        /\ a = "stations" => Len(f.stations) > 0
        /\ a = "labels" => Len(f.labels) > 0 }

\* C21 (one back-to-front order): whenever the canvas paints one kind of
\* element before another, the SVG markup emits the first before the second
\* too, for every two kinds that hold elements in the SVG frame.
C21_SameOrderInBothRenderers ==
    (mounted /\ frame.mode = "svg") =>
        \A a, b \in Occupied(frame) \cap Painted(canvasLayers) :
            PlaceOf(canvasLayers, a) < PlaceOf(canvasLayers, b)
                => PlaceOf(frame.layers, a) < PlaceOf(frame.layers, b)

\* every occurrence of a in the strokes s comes before every occurrence of b
Before(s, a, b) == \A i, j \in DOMAIN s : (s[i] = a /\ s[j] = b) => i < j

\* the strokes s of one planet: ring, then body and highlight, then moon
\* orbits and moons, each moon right after its orbit
PlanetInOrder(s) ==
    /\ Before(s, "ring", "shadow")
    /\ Before(s, "shadow", "body")
    /\ Before(s, "body", "highlight")
    /\ Before(s, "highlight", "moon orbit")
    /\ \A i \in DOMAIN s : s[i] = "moon orbit" => (i < Len(s) /\ s[i + 1] = "moon")
    /\ \A i \in DOMAIN s : s[i] = "moon" => (i > 1 /\ s[i - 1] = "moon orbit")

\* C22 (canvas painting order): one canvas pass paints background, starfield
\* dots, stars, belt particles, orbit guide circles, planets, stations,
\* labels and the HUD caption in that order; the planets in index order, each
\* as ring, then body and highlight, then moon orbits and moons; the labels
\* of the planets before the labels of the stations.
C22_CanvasPaintingOrder ==
    (mounted /\ frame.mode = "canvas") =>
        /\ frame.layers = << "background", "starfield", "stars", "belts", "orbits",
                             "planets", "stations", "labels", "hud" >>
        /\ Len(frame.planets) = Len(planets) /\ Len(frame.strokes) = Len(planets)
        /\ \A k \in DOMAIN planets :
             /\ frame.planets[k].centre = Polar(planets[k].angle, planets[k].orbitRadius)
             /\ PlanetInOrder(frame.strokes[k])
             /\ ("ring" \in Painted(frame.strokes[k])) = HasRings(planets[k])
        /\ frame.labels = LabelsFrom(planets, 1) \o LabelsFrom(stations, 1)

\* a canvas pass with a ringed planet that has moons, a station and labels
\* of both
C22_Witness ==
    /\ mounted /\ frame.mode = "canvas"
    /\ \E k \in DOMAIN frame.strokes :
         { "ring", "moon" } \subseteq Painted(frame.strokes[k])
    /\ Len(frame.stations) > 0
    /\ \E k \in DOMAIN stations : stations[k].showLabel # Some(FALSE)
    /\ \E k \in DOMAIN planets : planets[k].showLabel # Some(FALSE)

\* the ring stroke r of the canvas is within the ranges of the renderers
CanvasRingInRange(r) ==
    /\ r.gap >= 0 /\ r.width >= Unit
    /\ 0 <= r.opacity /\ r.opacity <= Milli
    /\ 200 <= r.flatten /\ r.flatten <= Milli

\* the ring ellipse r of the SVG markup is within the ranges of the renderers
SvgRingInRange(r) ==
    /\ r.gap >= 0 /\ r.width >= Unit
    /\ 0 <= r.opacity /\ r.opacity <= 100
    /\ 200 <= r.flatten /\ r.flatten <= Milli

\* the canvas strokes the ring c as the SVG markup writes the ring v
SameRing(c, v) ==
    /\ c.gap = v.gap /\ c.width = v.width /\ c.flatten = v.flatten
    /\ c.opacity * 100 = v.opacity * Milli

\* C23 (rings are clamped alike): whatever ring numbers reach a renderer
\* (generated, edited or imported), an enabled ring is drawn with gap >= 0,
\* width >= 1, opacity in [0, 1] and flatten in [0.2, 1], with the same
\* values on the canvas and in the SVG markup, and a ring whose enabled is
\* false is not drawn.
C23_RingsClampedAlike ==
    mounted =>
        /\ Len(frame.rings) = Len(planets)
        /\ \A k \in DOMAIN planets :
             LET c == CanvasRingStroke(planets[k])
                 v == SvgRingStroke(planets[k])
             IN /\ frame.rings[k] = (IF frame.mode = "canvas" THEN c ELSE v)
                /\ IsSome(frame.rings[k]) = HasRings(planets[k])
                /\ HasRings(planets[k]) =>
                     /\ CanvasRingInRange(Val(c))
                     /\ SvgRingInRange(Val(v))
                     /\ SameRing(Val(c), Val(v))

\* the editor's state apart from the stations and the pending placement
ApartFromPlacing == [ Cur EXCEPT !.stations = << >>, !.placingStationIndex = None ]

\* C24 (a click places the pending station): a click on the canvas while a
\* placement is pending sets only the radius and the angle of the station at
\* the pending index, to the polar form of the pointer's offset from the
\* centre, so that the station is drawn at the clicked point; the other
\* stations and every other field are unchanged and the pending placement
\* is cleared. A click with no placement pending changes nothing.
C24_ClickPlacesPendingStation ==
    [][ (out'.handler = "handleClick" /\ ops' = ops + 1) =>
          IF IsSome(placingStationIndex)
          THEN /\ placingStationIndex' = None
               /\ ApartFromPlacing' = ApartFromPlacing
               /\ Len(stations') = Len(stations)
               /\ \E at \in ClickInputs :
                    \A k \in DOMAIN stations :
                      IF k - 1 = Val(placingStationIndex)
                      THEN /\ stations'[k] =
                                [ stations[k] EXCEPT !.radius = Hypot(at.dx, at.dy),
                                                     !.angle = Atan2(at.dy, at.dx) ]
                           /\ PointOf(frame'.stations[k].centre) = at
                      ELSE stations'[k] = stations[k]
          ELSE Cur' = Cur ]_vars

\* of two stations, the second has been placed by a click left of the centre
C24_Witness ==
    /\ out.handler = "handleClick"
    /\ placingStationIndex = None
    /\ Len(stations) = 2
    /\ stations[2].radius = 150 * Unit /\ stations[2].angle = 32768
    /\ frame.stations[2].centre = Polar(32768, 150 * Unit)
    /\ stations[1].angle = 0

\* what basePlanets generates for one planet, apart from its moon count
Generated(p) ==
    [ orbitRadius |-> p.orbitRadius, size |-> p.size, angle |-> p.angle,
      color |-> p.color, rings |-> p.rings ]

\* C25 (stable prefix): when the planet count changes and the seed does not,
\* every planet whose index is below both counts keeps its generated
\* orbitRadius, size, angle, color and rings and its default name.
C25_StablePrefix ==
    [][ (out'.handler = "handleNumChange" /\ seed' = seed) =>
          \A k \in 1 .. Min(Len(basePlanets), Len(basePlanets')) :
            /\ Generated(basePlanets'[k]) = Generated(basePlanets[k])
            /\ defaultNames'[k] = defaultNames[k] ]_vars

\* the count was raised to the most planets, and a planet that was there
\* before has rings
C25_Witness ==
    /\ out.handler = "handleNumChange"
    /\ Len(basePlanets) = MaxPlanets /\ Len(defaultNames) = MaxPlanets
    /\ \E k \in 1 .. InitNumPlanets : IsSome(basePlanets[k].rings)

\* no draw is queued and no Image waits for its load
RedrawQuiet == raf = 0 /\ loading = EmptyBag

\* C26 (redraws stop): with the inputs unchanged and stations that hold
\* custom images, the redraws that image loads ask for come to an end: the
\* passes stay below the bound they are followed for, and from some point on
\* no draw is queued and no Image waits.
C26_RedrawsStop == [](passes < MaxPasses) /\ <>[]RedrawQuiet

\* after the first pass left an icon out, its load asked for a redraw and
\* the redraw drew the icon, waiting for nothing more
C26_Witness ==
    /\ passes >= 2 /\ RedrawQuiet
    /\ \E k \in DOMAIN frame.stations : frame.stations[k].icon = "image"
    /\ frame.complete = CustomIcons(stations)

\* C27 (the pending placement designates a station): whenever
\* placingStationIndex is set, it is an index into stations, whatever place
\* requests, station additions and removals, imports and render-mode
\* switches came before.
C27_PendingIndexValid ==
    IsSome(placingStationIndex) =>
        (0 <= Val(placingStationIndex) /\ Val(placingStationIndex) < Len(stations))

\* the override ov customises nothing but, at most, the name
PlainOverride(ov) ==
    /\ ~IsSome(ov.size) /\ ~IsSome(ov.color) /\ ~IsSome(ov.moons)
    /\ ~IsSome(ov.rings) /\ ~IsSome(ov.showLabel)

\* C28 (a removed planet comes back plain): after every step planetOverrides
\* has numPlanets entries, and when the planet count is raised, every planet
\* above the old count has no size, color, moons, rings or showLabel
\* override and carries its generated default name: nothing set on a planet
\* that was removed by lowering the count comes back with it.
C28_RemovedPlanetComesBackPlain ==
    [][ /\ Len(planetOverrides') = numPlanets'
        /\ out'.handler = "handleNumChange" =>
             \A k \in Len(planets) + 1 .. Len(planets') :
               /\ PlainOverride(planetOverrides'[k])
               /\ planets'[k].name = defaultNames'[k] ]_vars

\* the document doc carries the settings field read by get
Carries(doc, get(_)) == IsSome(doc.settings) /\ IsSome(get(Val(doc.settings)))

LabelSizeOf(st) == st.labelSize

LabelColorOf(st) == st.labelColor

ShowLabelBackgroundOf(st) == st.showLabelBackground

BeltsOf(st) == st.belts

StationsOf(st) == st.stations

\* C29 (what an import touches): an import leaves labelPosition, renderMode,
\* fullBleed, the export preset and placingStationIndex as they were, and
\* changes seed, numPlanets, planetOverrides, customNames, labelSize,
\* labelColor, showLabelBackground, belts and stations each only when the
\* document carries a well-typed value for it.
C29_ImportTouchesOnlyItsFields ==
    [][ out'.handler = "onImportFileChange" =>
          /\ labelPosition' = labelPosition
          /\ renderMode' = renderMode
          /\ fullBleed' = fullBleed
          /\ exportSizePreset' = exportSizePreset
          /\ exporting' = exporting
          /\ placingStationIndex' = placingStationIndex
          /\ \E doc \in { Val(file') } :
               /\ seed' # seed => IsSome(doc.seed)
               /\ numPlanets' # numPlanets => IsSome(doc.planets)
               /\ planetOverrides' # planetOverrides => IsSome(doc.planets)
               /\ customNames' # customNames => IsSome(doc.planets)
               /\ labelSize' # labelSize => Carries(doc, LabelSizeOf)
               /\ labelColor' # labelColor => Carries(doc, LabelColorOf)
               /\ showLabelBackground' # showLabelBackground
                    => Carries(doc, ShowLabelBackgroundOf)
               /\ belts' # belts => Carries(doc, BeltsOf)
               /\ stations' # stations => Carries(doc, StationsOf) ]_vars

\* a document with a seed and planets has been imported while a placement
\* was pending and the label position was not the initial one
C29_Witness ==
    /\ out.handler = "onImportFileChange" /\ out.alert = ""
    /\ seed = DocSeed /\ numPlanets = DocPlanets
    /\ (IsSome(placingStationIndex) \/ labelPosition # "top-left" \/ renderMode = "svg")

\* an anchored belt whose gapIndex was never set
Unanchored(belt) == belt.type = "anchored" /\ ~IsSome(belt.gapIndex)

\* the outermost orbit, 300 when there is no planet
OutermostOrbit == IF Len(planets) > 0 THEN planets[Len(planets)].orbitRadius ELSE 300 * Unit

\* the drawing d of belt k has the edges of a free belt: a radius off the
\* radius stream of (seed, k) in [80, max(140, outermost orbit + 120)),
\* inner = max(50, radius - width / 2) and outer = inner + width
PlacedAsFree(d, k) ==
    LET hi     == Max(140 * Unit, OutermostOrbit + 120 * Unit)
        radius == 80 * Unit + MulRand(beltDrawsOf[seed][k - 1].radius, hi - 80 * Unit)
    IN  /\ d.kind = "drawn"
        /\ 80 * Unit <= radius /\ radius < hi
        /\ d.inner = Max(50 * Unit, radius - belts[k].width \div 2)
        /\ d.outer = d.inner + belts[k].width

\* C30 (an anchored belt without a gap is a free belt): the mounted renderer
\* does not skip a belt of type "anchored" whose gapIndex was never set but
\* places it like a free belt, and every belt it draws has inner >= 50 and
\* outer - inner = width.
C30_UnanchoredBeltIsFree ==
    mounted =>
        /\ Len(frame.belts) = Len(belts)
        /\ \A k \in DOMAIN belts :
             /\ Unanchored(belts[k]) => PlacedAsFree(frame.belts[k], k)
             /\ frame.belts[k].kind = "drawn" =>
                  /\ frame.belts[k].inner >= 50 * Unit
                  /\ frame.belts[k].outer - frame.belts[k].inner = belts[k].width

\* a belt switched to "anchored" with no gap chosen is on the screen with
\* its particles, in either renderer
C30_Witness ==
    /\ mounted
    /\ \E k \in DOMAIN belts :
         /\ Unanchored(belts[k])
         /\ frame.belts[k].kind = "drawn"
         /\ Len(frame.belts[k].particles) > 0

=============================================================================
